---- MODULE Spec2Model ----
(***************************************************************************)
(* Verification model of the Project-xolo dungeon crawler.                 *)
(*                                                                         *)
(* The module holds several specifications over one set of variables:      *)
(*   Spec       - the Game.update tick loop of main.py (level progression, *)
(*                dead-entity sweep, boss death rewards);                  *)
(*   SpecBoss   - one Boss object under updates and health changes;        *)
(*   SpecHealth - the health arithmetic of player, enemies and bosses;     *)
(*   SpecMove   - circle-versus-tile movement and knockback on a level;    *)
(*   SpecGen    - procedural level generation (rooms, corridors, spawn).   *)
(* Each specification drives its own group of variables and leaves the     *)
(* other groups at their constructed values.                               *)
(***************************************************************************)
EXTENDS Integers, Sequences, FiniteSets, TLC

VARIABLES
    \* ---- Game (main.py) and the Level it plays (game_src/level.py)
    running,          \* the process is alive (False after an uncaught exception)
    phase,            \* game_state.phase
    paused,           \* Game.paused
    pc,               \* position inside Game.update
    current_level,    \* Game.current_level
    player_hp,        \* player.current_health
    total_xp,         \* XP handed to player.gain_xp so far in this game
    enemies,          \* level.enemies, a list of enemy identities
    ehp,              \* current_health of every enemy of the level
    awards,           \* how often each enemy's death reward was granted
    swept,            \* the entries removed by the dead-entity sweep of this tick
    boss_hp,          \* level.boss.current_health
    death_processed,  \* level.boss.death_processed
    boss_deaths,      \* number of boss objects whose health reached 0
    boss_rewards,     \* number of boss death rewards granted
    key_collected,    \* level.key_collected
    level_complete,   \* level.level_complete
    key_d2,           \* squared distance player - key
    altar_d2,         \* squared distance player - altar
    altar_result,     \* return value of the last check_altar_activation
    tick_log,         \* the phases run so far by the current Game.update
    \* ---- one Boss object (game_src/boss.py)
    bossObj, enrage_count, boss_last,
    \* ---- health arithmetic (player.py, enemy.py, boss.py)
    hplayer, hfoe, hlast,
    \* ---- movement on a level (level.py, player.py, enemy.py, combat.py)
    mover, mlast,
    \* ---- level generation (level.py)
    gen,
    \* ---- one Enemy object under Enemy.update (enemy.py)
    ai,
    \* ---- one RicochetProjectile in flight (new_enemy_types.py)
    ric,
    \* ---- one melee hit test (combat.py)
    melee,
    \* ---- the VisibilitySystem (DungeonCrawler_Windows/visibility.py)
    vis,
    \* ---- ground items and the player's inventory (items.py, player.py)
    inv,
    \* ---- one Enemy object with its knockback state (enemy.py)
    kb,
    \* ---- projectiles in flight and what they can hit (combat.py, enemy.py,
    \*      game_src/level.py)
    proj,
    \* ---- a mind-controlled Enemy among other enemies (enemy.py)
    mind,
    \* ---- the special abilities of a Boss (game_src/boss.py)
    ab,
    \* ---- a DaggerHasteBoss (game_src/boss_dagger_haste.py)
    haste,
    \* ---- a flanking Enemy and its attacks (enemy.py)
    flank,
    \* ---- the Player under Player.take_damage (player.py)
    hurt,
    \* ---- the minions of Boss.summon_minions (game_src/boss.py)
    minion

gameVars == <<running, phase, paused, pc, current_level, player_hp, total_xp,
              enemies, ehp, awards, swept, boss_hp, death_processed, boss_deaths,
              boss_rewards, key_collected, level_complete, key_d2, altar_d2,
              altar_result, tick_log>>
bossVars == <<bossObj, enrage_count, boss_last>>
healthVars == <<hplayer, hfoe, hlast>>
moveVars == <<mover, mlast>>
genVars == <<gen>>
aiVars == <<ai>>
ricVars == <<ric>>
meleeVars == <<melee>>
visVars == <<vis>>
invVars == <<inv>>
fourthVars == <<haste, flank, hurt, minion>>
thirdVars == <<kb, proj, mind, ab, fourthVars>>
laterVars == <<aiVars, ricVars, meleeVars, visVars, invVars, thirdVars>>
vars == <<gameVars, bossVars, healthVars, moveVars, genVars, laterVars>>

Max(a, b) == IF a >= b THEN a ELSE b
Min(a, b) == IF a <= b THEN a ELSE b

(***************************************************************************)
(* Bounds of the model.                                                    *)
(***************************************************************************)
\* enemies spawned into a level (the game spawns 18 + 5 * level)
NumEnemies == 2

(***************************************************************************)
(* Numbers taken from the source.                                          *)
(***************************************************************************)
max_level == 10
PlayerMaxHealth == 100
PlayerRadius == 15
KeyReach == 20
AltarReach == 25

\* Enemy.setup_stats: int(base * (1 + (player_level - 1) * 0.3))
ScaleStat(base, lvl) == (base * (10 + 3 * (lvl - 1))) \div 10

\* Boss.get_boss_type, as the factor 2 * (type multiplier) of setup_boss_stats
BossTypeFactor(lvl) == IF lvl = 10 THEN 4 ELSE IF lvl % 3 = 0 THEN 3 ELSE 2

\* Boss.setup_boss_stats: max_health = int(max_health * health_multiplier),
\* health_multiplier = (3.0 + level * 0.5) * type multiplier, on a heavy enemy
BossMaxHealth(lvl) == (ScaleStat(80, lvl) * (30 + 5 * lvl) * BossTypeFactor(lvl)) \div 20

\* Boss.setup_boss_stats: xp_value = int(xp_value * 3.0) on a heavy enemy
BossXp(lvl) == ScaleStat(40, lvl) * 3

\* a "basic" enemy of Enemy.setup_stats
EnemyMaxHealth(lvl) == ScaleStat(50, lvl)
EnemyXp(lvl) == ScaleStat(25, lvl)

\* Enemy.is_alive (state is "dead" exactly when current_health <= 0)
IsAlive(hp) == hp > 0

\* Enemy.take_damage / Player.take_damage: the new current_health
TakeDamage(hp, amount) == Max(0, hp - amount)

(***************************************************************************)
(* Level (game_src/level.py) as Game sees it.                              *)
(***************************************************************************)
EnemyIds == 1 .. NumEnemies

\* squared distances at which the player can stand from the key / the altar:
\* exactly on the pickup radius, just outside it
KeyDist2Inputs == {(PlayerRadius + KeyReach) * (PlayerRadius + KeyReach),
                   (PlayerRadius + KeyReach) * (PlayerRadius + KeyReach) + 1}
AltarDist2Inputs == {(PlayerRadius + AltarReach) * (PlayerRadius + AltarReach),
                     (PlayerRadius + AltarReach) * (PlayerRadius + AltarReach) + 1}
\* the spawn position is a tile corner, key and altar are tile centres
SpawnDist2 == 32 * 32 + 32 * 32

\* damage of one player hit with the war axe (damage_multiplier 2.0) at player
\* level 1 and at player level 8, Player.damage
PlayerDamageInputs == {50, 288}
\* damage taken by the player from one enemy hit (0: no hit or immune) and
\* from one hit of the level-1 boss
EnemyHitInputs == {0, 15}
BossHitInputs == {0, 42}

\* Level.check_key_collection: the new key_collected
CheckKeyCollection(collected, keyPlaced, d2) ==
    IF ~collected /\ keyPlaced
    THEN d2 <= (PlayerRadius + KeyReach) * (PlayerRadius + KeyReach)
    ELSE FALSE

\* Level.check_altar_activation without the boss test
CheckAltarActivationNoBoss(collected, complete, altarPlaced, hasBoss, bossHp, d2, ePressed) ==
    IF collected /\ ~complete /\ altarPlaced
    THEN d2 <= (PlayerRadius + AltarReach) * (PlayerRadius + AltarReach) /\ ePressed
    ELSE FALSE

\* Level.check_altar_activation: the return value
CheckAltarActivation(collected, complete, altarPlaced, hasBoss, bossHp, d2, ePressed) ==
    IF collected /\ ~complete /\ altarPlaced
    THEN IF hasBoss /\ IsAlive(bossHp)
         THEN FALSE
         ELSE d2 <= (PlayerRadius + AltarReach) * (PlayerRadius + AltarReach) /\ ePressed
    ELSE FALSE

\* every generated level of the game has floor tiles, hence a boss
\* (Level.spawn_boss) and a key and an altar (Level.place_key_and_altar)
LevelHasBoss == TRUE
LevelHasKey == TRUE
LevelHasAltar == TRUE

RemoveAt(list, i) == SubSeq(list, 1, i - 1) \o SubSeq(list, i + 1, Len(list))

RECURSIVE SweepLiveList(_, _, _)
\* a sweep that walks the list it removes from: the entry after a removed one
\* moves into the current index and is never visited
SweepLiveList(list, i, h) ==
    IF i > Len(list) THEN <<>>
    ELSE IF ~IsAlive(h[list[i]])
         THEN <<list[i]>> \o SweepLiveList(RemoveAt(list, i), i + 1, h)
         ELSE SweepLiveList(list, i + 1, h)

\* the dead-entity sweep without the copy of the list
SweepRemovedNoCopy(list, h) == SweepLiveList(list, 1, h)

\* Game.update, "Remove dead enemies and award XP": the entries the loop
\* over the copy level.enemies[:] rewards and removes, in order
SweepRemoved(list, h) == SelectSeq(list, LAMBDA e : ~IsAlive(h[e]))

SeqToSet(list) == {list[i] : i \in DOMAIN list}

\* the order of level.enemies after Level.__init__
FreshEnemies == [i \in EnemyIds |-> i]

(***************************************************************************)
(* Boss (game_src/boss.py).  speed is kept in tenths of a pixel per second *)
(* and the cooldowns in 1/10000 s, so that every product of the source is  *)
(* an integer.                                                             *)
(***************************************************************************)
\* Enemy.__init__: speed = 80 + (player_level - 1) * 10, in tenths
EnemySpeed(lvl) == (80 + (lvl - 1) * 10) * 10

\* Enemy.setup_weapon for "heavy": attack_speed 2.5 / speed_multiplier 0.8
HeavyAttackCooldown == 31250

\* Boss.__init__: special_attack_cooldown = 3.0
SpecialAttackCooldown == 30000

\* Boss.__init__ with setup_boss_stats (speed *= 1.3)
NewBoss(lvl) ==
    [level |-> lvl,
     max_health |-> BossMaxHealth(lvl),
     current_health |-> BossMaxHealth(lvl),
     enraged |-> FALSE,
     speed |-> (EnemySpeed(lvl) * 13) \div 10,
     attack_cooldown |-> HeavyAttackCooldown,
     special_attack_cooldown |-> SpecialAttackCooldown]

\* the enrage test of Boss.update without the latch on self.enraged
ShouldEnrageNoLatch(b) == b.current_health * 10 <= 3 * b.max_health

\* Boss.update: not self.enraged and get_health_percentage() <= 0.3
ShouldEnrage(b) == ~b.enraged /\ b.current_health * 10 <= 3 * b.max_health

\* Boss.enrage
Enrage(b) ==
    [b EXCEPT !.enraged = TRUE,
              !.speed = @ * 2,
              !.attack_cooldown = @ \div 2,
              !.special_attack_cooldown = (@ * 6) \div 10]

(***************************************************************************)
(* Health arithmetic (player.py, enemy.py, game_src/boss.py).              *)
(***************************************************************************)
\* Player.__init__
NewPlayer == [current_health |-> PlayerMaxHealth, max_health |-> PlayerMaxHealth,
              level |-> 1, xp |-> 0, total_xp |-> 0, xp_to_next_level |-> 100]

\* Player.heal without the clamp to max_health
PlayerHealNoClamp(p, amount) ==
    [p EXCEPT !.current_health = p.current_health + amount]

\* Player.heal
PlayerHeal(p, amount) ==
    [p EXCEPT !.current_health = Min(p.max_health, p.current_health + amount)]

\* Player.level_up without the raise of xp_to_next_level
LevelUpKeepThreshold(p) ==
    [p EXCEPT !.xp = p.xp - p.xp_to_next_level,
              !.level = p.level + 1,
              !.max_health = p.max_health + 20,
              !.current_health = p.current_health + 20]

\* Player.level_up
LevelUp(p) ==
    [p EXCEPT !.xp = p.xp - p.xp_to_next_level,
              !.level = p.level + 1,
              !.max_health = p.max_health + 20,
              !.current_health = p.current_health + 20,
              !.xp_to_next_level = (p.xp_to_next_level * 3) \div 2]

RECURSIVE LevelUpLoop(_)
\* Player.gain_xp: while self.xp >= self.xp_to_next_level: self.level_up()
LevelUpLoop(p) == IF p.xp >= p.xp_to_next_level THEN LevelUpLoop(LevelUp(p)) ELSE p

\* Player.gain_xp
GainXp(p, amount) ==
    LevelUpLoop([p EXCEPT !.xp = p.xp + amount, !.total_xp = p.total_xp + amount])

\* Enemy.setup_stats: health of an enemy of the given base health and level
NewEnemyHealth(base, lvl) ==
    [current_health |-> ScaleStat(base, lvl), max_health |-> ScaleStat(base, lvl)]

\* Boss.summon_minions: a "fast" enemy of level max(1, level // 2) with
\* max_health = int(max_health * 0.6) and full health
NewMinionHealth(bossLevel) ==
    LET m == (ScaleStat(30, Max(1, bossLevel \div 2)) * 6) \div 10
    IN  [current_health |-> m, max_health |-> m]

\* Boss.setup_boss_stats
NewBossHealth(lvl) == [current_health |-> BossMaxHealth(lvl), max_health |-> BossMaxHealth(lvl)]

(***************************************************************************)
(* Game (main.py).                                                         *)
(***************************************************************************)
\* values of the other groups while the game specification runs
IdleBoss == NewBoss(1)
IdleHealth == NewEnemyHealth(50, 1)
IdleLast == "new"
IdleMover == [kind |-> "none", x |-> 0, y |-> 0, radius |-> 0]
IdleGen == [pc |-> "none", width |-> 0, height |-> 0, floor |-> {}, rooms |-> <<>>,
            attempts |-> 0, next |-> 1, spawn_position |-> <<0, 0>>]

BossIdle == bossObj = IdleBoss /\ enrage_count = 0 /\ boss_last = "none"
HealthIdle == hplayer = NewPlayer /\ hfoe = IdleHealth /\ hlast = IdleLast
MoveIdle == mover = IdleMover /\ mlast = "none"
GenIdle == gen = IdleGen
IdleLater == [pc |-> "none"]
FourthIdle == haste = IdleLater /\ flank = IdleLater /\ hurt = IdleLater /\ minion = IdleLater
ThirdIdle == kb = IdleLater /\ proj = IdleLater /\ mind = IdleLater /\ ab = IdleLater /\ FourthIdle
LaterIdle == ai = IdleLater /\ ric = IdleLater /\ melee = IdleLater
             /\ vis = IdleLater /\ inv = IdleLater /\ ThirdIdle

\* Game.__init__ / Game.start_new_game: level 1, a new Level, a new Player
NewGame ==
    /\ phase' = "playing"
    /\ paused' = FALSE
    /\ pc' = "idle"
    /\ current_level' = 1
    /\ player_hp' = PlayerMaxHealth
    /\ total_xp' = 0
    /\ enemies' = FreshEnemies
    /\ ehp' = [e \in EnemyIds |-> EnemyMaxHealth(1)]
    /\ awards' = [e \in EnemyIds |-> 0]
    /\ swept' = <<>>
    /\ boss_hp' = BossMaxHealth(1)
    /\ death_processed' = FALSE
    /\ boss_deaths' = 0
    /\ boss_rewards' = 0
    /\ key_collected' = FALSE
    /\ level_complete' = FALSE
    /\ key_d2' = SpawnDist2
    /\ altar_d2' = SpawnDist2
    /\ altar_result' = FALSE
    /\ tick_log' = <<>>

\* the Game after Game.__init__
GameInit ==
    /\ running = TRUE
    /\ phase = "playing"
    /\ paused = FALSE
    /\ pc = "idle"
    /\ current_level = 1
    /\ player_hp = PlayerMaxHealth
    /\ total_xp = 0
    /\ enemies = FreshEnemies
    /\ ehp = [e \in EnemyIds |-> EnemyMaxHealth(1)]
    /\ awards = [e \in EnemyIds |-> 0]
    /\ swept = <<>>
    /\ boss_hp = BossMaxHealth(1)
    /\ death_processed = FALSE
    /\ boss_deaths = 0
    /\ boss_rewards = 0
    /\ key_collected = FALSE
    /\ level_complete = FALSE
    /\ key_d2 = SpawnDist2
    /\ altar_d2 = SpawnDist2
    /\ altar_result = FALSE
    /\ tick_log = <<>>

Init == GameInit /\ BossIdle /\ HealthIdle /\ MoveIdle /\ GenIdle /\ LaterIdle

notGame == <<bossVars, healthVars, moveVars, genVars, laterVars>>

\* Game.handle_playing_events K_r / Game.handle_game_over_events K_r
\* (events are processed between two calls of Game.update)
Restart ==
    /\ running /\ pc = "idle"
    /\ NewGame
    /\ UNCHANGED <<running, notGame>>

\* Game.handle_playing_events K_p
TogglePause ==
    /\ running /\ pc = "idle" /\ phase = "playing"
    /\ paused' = ~paused
    /\ UNCHANGED <<running, phase, pc, current_level, player_hp, total_xp, enemies,
                   ehp, awards, swept, boss_hp, death_processed, boss_deaths, boss_rewards,
                   key_collected, level_complete, key_d2, altar_d2, altar_result,
                   tick_log, notGame>>

\* Game.update up to "Get current input state": the phase / pause return and
\* the player-death check
UpdateBegin ==
    /\ running /\ pc = "idle"
    /\ IF phase # "playing" \/ paused
       THEN UNCHANGED <<phase, pc, tick_log>>
       ELSE IF player_hp <= 0
            THEN phase' = "game_over" /\ UNCHANGED <<pc, tick_log>>
            ELSE pc' = "player" /\ tick_log' = <<>> /\ UNCHANGED phase
    /\ UNCHANGED <<running, paused, current_level, player_hp, total_xp, enemies,
                   ehp, awards, swept, boss_hp, death_processed, boss_deaths, boss_rewards,
                   key_collected, level_complete, key_d2, altar_d2, altar_result,
                   notGame>>

\* the enemies of level.enemies that are alive
Living == {e \in SeqToSet(enemies) : IsAlive(ehp[e])}

\* damage dealt by the player's side to a set of enemies and maybe the boss
\* (CombatSystem.attempt_melee_attack, CombatSystem.update_projectiles)
DealDamage(targets, hitBoss, d) ==
    /\ ehp' = [e \in EnemyIds |-> IF e \in targets THEN TakeDamage(ehp[e], d) ELSE ehp[e]]
    /\ boss_hp' = IF hitBoss THEN TakeDamage(boss_hp, d) ELSE boss_hp
    /\ boss_deaths' = IF hitBoss /\ IsAlive(boss_hp) /\ ~IsAlive(TakeDamage(boss_hp, d))
                      THEN boss_deaths + 1 ELSE boss_deaths

\* Game.update: self.player.update(...) - the player moves and attacks
PlayerPhase ==
    /\ running /\ pc = "player"
    /\ \E kd \in KeyDist2Inputs \cup {SpawnDist2}, ad \in AltarDist2Inputs \cup {SpawnDist2} :
          key_d2' = kd /\ altar_d2' = ad
    /\ \E d \in PlayerDamageInputs, targets \in SUBSET Living, hitBoss \in BOOLEAN :
          /\ hitBoss => LevelHasBoss /\ IsAlive(boss_hp)
          /\ DealDamage(targets, hitBoss, d)
    /\ pc' = "enemies"
    /\ tick_log' = Append(tick_log, "player")
    /\ UNCHANGED <<running, phase, paused, current_level, player_hp, total_xp, enemies,
                   awards, swept, death_processed, boss_rewards, key_collected,
                   level_complete, altar_result, notGame>>

\* Game.update: "Update enemies" - every living enemy may hit the player
EnemiesPhase ==
    /\ running /\ pc = "enemies"
    /\ \E d \in EnemyHitInputs :
          /\ d > 0 => Living # {}
          /\ player_hp' = TakeDamage(player_hp, d)
    /\ pc' = "boss"
    /\ tick_log' = Append(tick_log, "enemies")
    /\ UNCHANGED <<running, phase, paused, current_level, total_xp, enemies, ehp, awards, swept,
                   boss_hp, death_processed, boss_deaths, boss_rewards, key_collected,
                   level_complete, key_d2, altar_d2, altar_result, notGame>>

\* Game.update: "Update boss if it exists" - a living boss may hit the player
BossPhase ==
    /\ running /\ pc = "boss"
    /\ \E d \in BossHitInputs :
          /\ d > 0 => LevelHasBoss /\ IsAlive(boss_hp)
          /\ player_hp' = TakeDamage(player_hp, d)
    /\ pc' = "projectiles"
    /\ tick_log' = Append(tick_log, "boss")
    /\ UNCHANGED <<running, phase, paused, current_level, total_xp, enemies, ehp, awards, swept,
                   boss_hp, death_processed, boss_deaths, boss_rewards, key_collected,
                   level_complete, key_d2, altar_d2, altar_result, notGame>>

\* Game.update: update_projectiles, update_boss_projectiles, update_items
ProjectilesPhase ==
    /\ running /\ pc = "projectiles"
    /\ \E d \in PlayerDamageInputs, targets \in SUBSET Living, hitBoss \in BOOLEAN :
          /\ Cardinality(targets) + (IF hitBoss THEN 1 ELSE 0) <= 1
          /\ hitBoss => LevelHasBoss /\ IsAlive(boss_hp)
          /\ DealDamage(targets, hitBoss, d)
    /\ pc' = "key_check"
    /\ tick_log' = Append(tick_log, "projectiles")
    /\ UNCHANGED <<running, phase, paused, current_level, player_hp, total_xp, enemies,
                   awards, swept, death_processed, boss_rewards, key_collected,
                   level_complete, key_d2, altar_d2, altar_result, notGame>>

RECURSIVE LevelsGained(_, _)
\* Player.gain_xp / Player.level_up: the number of level-ups that xp points
\* buy when the next level costs next points (the cost grows by int(* 1.5))
LevelsGained(xp, next) ==
    IF xp >= next THEN 1 + LevelsGained(xp - next, (next * 3) \div 2) ELSE 0

\* Player.level after total points of XP (level 1, xp_to_next_level 100 at start)
PlayerLevel(total) == 1 + LevelsGained(total, 100)

\* Player.gain_xp: current_health grows by 20 with every level-up
HealthAfterXp(hp, total, gained) ==
    hp + 20 * (PlayerLevel(total + gained) - PlayerLevel(total))

\* the level number the current Level object was built with
PlayedLevel == Min(current_level, max_level)

\* Game.update: "Check key collection"
KeyPhase ==
    /\ running /\ pc = "key_check"
    /\ key_collected' = (key_collected \/ CheckKeyCollection(key_collected, LevelHasKey, key_d2))
    /\ pc' = "altar_check"
    /\ tick_log' = Append(tick_log, "key_check")
    /\ UNCHANGED <<running, phase, paused, current_level, player_hp, total_xp, enemies,
                   ehp, awards, swept, boss_hp, death_processed, boss_deaths, boss_rewards,
                   level_complete, key_d2, altar_d2, altar_result, notGame>>

\* Game.update: "Check altar activation for level progression", with
\* Game.advance_to_next_level.  Below max_level the new Level replaces the old
\* one and the player is put on its spawn; then
\* self.game_state.levels_completed.append(...) raises AttributeError
\* (GameState has no such attribute), which ends Game.run through main().
AltarPhase ==
    /\ running /\ pc = "altar_check"
    /\ tick_log' = Append(tick_log, "altar_check")
    /\ \E ePressed \in BOOLEAN :
          LET r == CheckAltarActivation(key_collected, level_complete, LevelHasAltar,
                                        LevelHasBoss, boss_hp, altar_d2, ePressed)
          IN  /\ altar_result' = r
              /\ IF ~r
                 THEN /\ pc' = "sweep_enemies"
                      /\ UNCHANGED <<running, current_level, enemies, ehp, awards, swept, boss_hp,
                                     death_processed, key_collected, level_complete,
                                     key_d2, altar_d2>>
                 ELSE IF current_level + 1 > max_level
                 THEN /\ level_complete' = TRUE
                      /\ current_level' = current_level + 1
                      /\ pc' = "sweep_enemies"
                      /\ UNCHANGED <<running, enemies, ehp, awards, swept, boss_hp,
                                     death_processed, key_collected, key_d2, altar_d2>>
                 ELSE /\ current_level' = current_level + 1
                      /\ enemies' = FreshEnemies
                      /\ ehp' = [e \in EnemyIds |-> EnemyMaxHealth(current_level + 1)]
                      /\ awards' = [e \in EnemyIds |-> 0]
                      /\ swept' = <<>>
                      /\ boss_hp' = BossMaxHealth(current_level + 1)
                      /\ death_processed' = FALSE
                      /\ key_collected' = FALSE
                      /\ level_complete' = FALSE
                      /\ key_d2' = SpawnDist2
                      /\ altar_d2' = SpawnDist2
                      /\ running' = FALSE
                      /\ pc' = "crashed"
    /\ UNCHANGED <<phase, paused, player_hp, total_xp, boss_deaths, boss_rewards, notGame>>

\* Game.update: "Remove dead enemies and award XP"
SweepPhase ==
    /\ running /\ pc = "sweep_enemies"
    /\ LET removed == SweepRemoved(enemies, ehp)
           gained == Len(removed) * EnemyXp(PlayedLevel)
       IN  /\ enemies' = SelectSeq(enemies, LAMBDA e : e \notin SeqToSet(removed))
           /\ awards' = [e \in EnemyIds |->
                           awards[e] + Cardinality({i \in DOMAIN removed : removed[i] = e})]
           /\ swept' = removed
           /\ total_xp' = total_xp + gained
           /\ player_hp' = HealthAfterXp(player_hp, total_xp, gained)
    /\ pc' = "boss_death"
    /\ tick_log' = Append(tick_log, "sweep_enemies")
    /\ UNCHANGED <<running, phase, paused, current_level, ehp, boss_hp, death_processed,
                   boss_deaths, boss_rewards, key_collected, level_complete, key_d2,
                   altar_d2, altar_result, notGame>>

\* Game.update: "Check if boss is defeated"
BossDeathPhase ==
    /\ running /\ pc = "boss_death"
    /\ IF LevelHasBoss /\ ~IsAlive(boss_hp) /\ ~death_processed
       THEN /\ total_xp' = total_xp + BossXp(PlayedLevel)
            /\ player_hp' = HealthAfterXp(player_hp, total_xp, BossXp(PlayedLevel))
            /\ boss_rewards' = boss_rewards + 1
            /\ death_processed' = TRUE
       ELSE UNCHANGED <<total_xp, player_hp, boss_rewards, death_processed>>
    /\ pc' = "idle"
    /\ swept' = <<>>
    /\ tick_log' = Append(tick_log, "boss_death")
    /\ UNCHANGED <<running, phase, paused, current_level, enemies, ehp, awards, boss_hp,
                   boss_deaths, key_collected, level_complete, key_d2, altar_d2,
                   altar_result, notGame>>

Next ==
    \/ Restart
    \/ TogglePause
    \/ UpdateBegin
    \/ PlayerPhase
    \/ EnemiesPhase
    \/ BossPhase
    \/ ProjectilesPhase
    \/ KeyPhase
    \/ AltarPhase
    \/ SweepPhase
    \/ BossDeathPhase

Spec == Init /\ [][Next]_vars

(***************************************************************************)
(* Properties of the game loop.                                            *)
(***************************************************************************)
AltarRadius2 == (PlayerRadius + AltarReach) * (PlayerRadius + AltarReach)

\* what the altar check needs: the key, no living boss, the player in reach
AltarAllowed ==
    /\ key_collected
    /\ (~LevelHasBoss \/ ~IsAlive(boss_hp))
    /\ altar_d2 <= AltarRadius2

\* C1: check_altar_activation succeeds (and the level advances) only if at
\* that moment the key is collected, the level has no living boss and the
\* player is within the activation radius of the altar; if one of the three
\* fails the call returns False, level_complete is unchanged and the game
\* stays on its level.
C1_AltarOnlyWhenAllowed ==
    [][(running /\ pc = "altar_check") =>
          /\ (altar_result' \/ current_level' # current_level) => AltarAllowed
          /\ ~AltarAllowed => /\ ~altar_result'
                              /\ level_complete' = level_complete
                              /\ current_level' = current_level
                              /\ enemies' = enemies
                              /\ running']_vars

\* an activation succeeded and the game advanced from level 1 to level 2
C1_Witness == altar_result /\ current_level = 2

\* C2: the death rewards of every boss whose health reached 0 are granted
\* exactly once: never more often than bosses died, and whenever Game.update
\* is not running (between ticks, or after the process ended) every dead boss
\* has been rewarded.
C2_BossRewardedExactlyOnce ==
    /\ boss_rewards <= boss_deaths
    /\ (pc = "idle" \/ ~running) => boss_rewards = boss_deaths

IsPrefix(s, t) == Len(s) <= Len(t) /\ SubSeq(t, 1, Len(s)) = s

\* the phase order stated for Game.update: input and movement, enemies, boss,
\* projectiles and effects, removal of the dead with rewards, progression
ClaimedOrder == <<"player", "enemies", "boss", "projectiles",
                  "sweep_enemies", "boss_death", "key_check", "altar_check">>

\* C4: within every Game.update of the playing phase the phases run in the
\* order player, enemies, boss, projectiles, dead-entity sweep with rewards,
\* key and altar checks.
C4_PhaseOrder == IsPrefix(tick_log, ClaimedOrder)

BossLevels == {1, 3, 10}

\* health values a caller can leave the boss with: dead, on the enrage
\* threshold, just above it, full
BossHealthInputs(b) == {0, (3 * b.max_health) \div 10, (3 * b.max_health) \div 10 + 1, b.max_health}

InitBoss ==
    /\ \E lvl \in BossLevels : bossObj = NewBoss(lvl)
    /\ enrage_count = 0
    /\ boss_last = "new"
    /\ GameInit /\ HealthIdle /\ MoveIdle /\ GenIdle /\ LaterIdle

notBoss == <<gameVars, healthVars, moveVars, genVars, laterVars>>

\* Enemy.take_damage on the boss
BossTakeDamage ==
    /\ \E d \in PlayerDamageInputs :
          bossObj' = [bossObj EXCEPT !.current_health = TakeDamage(@, d)]
    /\ boss_last' = "damage"
    /\ UNCHANGED <<enrage_count, notBoss>>

\* current_health is a plain attribute: any holder of the boss can assign it
\* (as setup_boss_stats does), also to a higher value than before
BossSetHealth ==
    /\ \E h \in BossHealthInputs(bossObj) :
          bossObj' = [bossObj EXCEPT !.current_health = h]
    /\ boss_last' = "set"
    /\ UNCHANGED <<enrage_count, notBoss>>

\* Boss.update: nothing for a dead boss, else the enrage check
BossUpdate ==
    /\ IF IsAlive(bossObj.current_health) /\ ShouldEnrage(bossObj)
       THEN bossObj' = Enrage(bossObj) /\ enrage_count' = enrage_count + 1
       ELSE UNCHANGED <<bossObj, enrage_count>>
    /\ boss_last' = "update"
    /\ UNCHANGED notBoss

NextBoss == BossTakeDamage \/ BossSetHealth \/ BossUpdate

SpecBoss == InitBoss /\ [][NextBoss]_vars

\* C3: the enrage transition fires at most once per boss; the update of a
\* living boss at or below 30% health leaves it enraged; once fired, enraged
\* stays true and speed, attack_cooldown and special_attack_cooldown carry
\* the enrage modifiers exactly once, whatever the health does afterwards.
C3_EnrageOnce ==
    LET base == NewBoss(bossObj.level)
    IN  /\ enrage_count <= 1
        /\ bossObj.enraged <=> (enrage_count = 1)
        /\ bossObj.speed = IF enrage_count = 0 THEN base.speed ELSE 2 * base.speed
        /\ bossObj.attack_cooldown =
              IF enrage_count = 0 THEN base.attack_cooldown ELSE base.attack_cooldown \div 2
        /\ bossObj.special_attack_cooldown =
              IF enrage_count = 0 THEN base.special_attack_cooldown
              ELSE (base.special_attack_cooldown * 6) \div 10
        /\ (boss_last = "update" /\ IsAlive(bossObj.current_health)
              /\ bossObj.current_health * 10 <= 3 * bossObj.max_health) => bossObj.enraged

\* an enraged boss whose health is back above the threshold has just been
\* updated again
C3_Witness ==
    /\ boss_last = "update"
    /\ bossObj.enraged
    /\ enrage_count = 1
    /\ bossObj.current_health * 10 > 3 * bossObj.max_health

(***************************************************************************)
(* SpecHealth: every operation of the source that writes current_health or *)
(* max_health, applied in any order to the player and to one enemy, minion *)
(* or boss.                                                                *)
(***************************************************************************)
\* highest player level reached by the model
MaxPlayerLevel == 3

\* base health of the enemy types of create_enemy (basic, fast, heavy, ranged)
EnemyBaseHealths == {50, 30, 80, 40}
\* levels at which enemies, minions and bosses are built
FoeLevels == {1, 2}
\* XP of the level-1 boss and of the level-10 boss (several level-ups at once)
XpInputs == {120, 444}
\* XP handed out by the demo: one level-up from level 1
DemoXpInputs == {200}
\* heal amounts: a health pack heals max_health * heal_percentage with
\* heal_percentage from 5% to 12%
HealInputs(p) == {(p.max_health * 5) \div 100, (p.max_health * 12) \div 100}

InitHealth ==
    /\ hplayer = NewPlayer
    /\ hfoe = IdleHealth
    /\ hlast = IdleLast
    /\ GameInit /\ BossIdle /\ MoveIdle /\ GenIdle /\ LaterIdle

notHealth == <<gameVars, bossVars, moveVars, genVars, laterVars>>

\* Player.take_damage: ignored during the damage immunity, else clamped at 0
HPlayerTakeDamage ==
    /\ \E d \in EnemyHitInputs \cup BossHitInputs, immune \in BOOLEAN :
          /\ hplayer' = IF immune THEN hplayer
                        ELSE [hplayer EXCEPT !.current_health = TakeDamage(@, d)]
          /\ hlast' = IF ~immune /\ hplayer.current_health - d < 0
                      THEN "damage_clamped" ELSE "damage"
    /\ UNCHANGED <<hfoe, notHealth>>

\* Player.heal, called by Player.update (regeneration) and by
\* HealthItem.use_on_player
HPlayerHeal ==
    /\ \E a \in HealInputs(hplayer) :
          /\ hplayer' = PlayerHeal(hplayer, a)
          /\ hlast' = IF hplayer.current_health + a > hplayer.max_health
                      THEN "heal_clamped" ELSE "heal"
    /\ UNCHANGED <<hfoe, notHealth>>

\* Player.gain_xp with its level-ups
HPlayerGainXp ==
    /\ \E x \in XpInputs \cup DemoXpInputs :
          /\ GainXp(hplayer, x).level <= MaxPlayerLevel
          /\ hplayer' = GainXp(hplayer, x)
          /\ hlast' = IF GainXp(hplayer, x).level > hplayer.level THEN "level_up" ELSE "xp"
    /\ UNCHANGED <<hfoe, notHealth>>

\* Enemy.take_damage on the enemy, minion or boss
HFoeTakeDamage ==
    /\ \E d \in PlayerDamageInputs :
          /\ hfoe' = [hfoe EXCEPT !.current_health = TakeDamage(@, d)]
          /\ hlast' = IF hfoe.current_health - d < 0 THEN "foe_clamped" ELSE "foe_damage"
    /\ UNCHANGED <<hplayer, notHealth>>

\* create_enemy / Enemy.__init__ with setup_stats
HSpawnEnemy ==
    /\ \E base \in EnemyBaseHealths, lvl \in FoeLevels : hfoe' = NewEnemyHealth(base, lvl)
    /\ hlast' = "spawn"
    /\ UNCHANGED <<hplayer, notHealth>>

\* Boss.summon_minions
HSummonMinion ==
    /\ \E lvl \in FoeLevels : hfoe' = NewMinionHealth(lvl)
    /\ hlast' = "minion"
    /\ UNCHANGED <<hplayer, notHealth>>

\* Boss.__init__ with setup_boss_stats
HSpawnBoss ==
    /\ \E lvl \in FoeLevels : hfoe' = NewBossHealth(lvl)
    /\ hlast' = "boss"
    /\ UNCHANGED <<hplayer, notHealth>>

NextHealth ==
    \/ HPlayerTakeDamage
    \/ HPlayerHeal
    \/ HPlayerGainXp
    \/ HFoeTakeDamage
    \/ HSpawnEnemy
    \/ HSummonMinion
    \/ HSpawnBoss

SpecHealth == InitHealth /\ [][NextHealth]_vars

\* C6: 0 <= current_health <= max_health for the player and for every enemy,
\* minion and boss, after any sequence of take_damage, heal, level_up,
\* health-pack use, minion creation and boss stat setup.
C6_HealthInRange ==
    /\ 0 <= hplayer.current_health /\ hplayer.current_health <= hplayer.max_health
    /\ 0 <= hfoe.current_health /\ hfoe.current_health <= hfoe.max_health

\* a heal that would have overshot has left a levelled-up player exactly at
\* max_health
C6_Witness ==
    /\ hlast = "heal_clamped"
    /\ hplayer.level > 1
    /\ hplayer.current_health = hplayer.max_health

(***************************************************************************)
(* Level geometry (level.py).  A level is its width, its height and the    *)
(* set of its floor tiles; every other tile of the grid is a wall.         *)
(***************************************************************************)
tile_size == 32
EnemyRadius == 12

\* Level.carve_room: floor on every tile of the room that lies in the grid
CarveRoom(floor, room, w, h) ==
    floor \cup {t \in (room[1] .. room[1] + room[3] - 1) \X (room[2] .. room[2] + room[4] - 1) :
                   0 <= t[1] /\ t[1] < w /\ 0 <= t[2] /\ t[2] < h}

\* Tile.type == "wall" for a tile of the grid
IsWall(floor, tx, ty) == <<tx, ty>> \notin floor

\* Level.circle_rect_collision
CircleRectCollision(cx, cy, radius, rx, ry, rw, rh) ==
    LET closest_x == Max(rx, Min(cx, rx + rw))
        closest_y == Max(ry, Min(cy, ry + rh))
        distance_x == cx - closest_x
        distance_y == cy - closest_y
    IN  distance_x * distance_x + distance_y * distance_y < radius * radius

\* Level.check_wall_collision: only tiles inside the grid are inspected
CheckWallCollision(floor, w, h, x, y, radius) ==
    LET left_tile == (x - radius) \div tile_size
        right_tile == (x + radius) \div tile_size
        top_tile == (y - radius) \div tile_size
        bottom_tile == (y + radius) \div tile_size
    IN  \E tile_y \in Max(0, top_tile) .. (Min(h, bottom_tile + 1) - 1),
           tile_x \in Max(0, left_tile) .. (Min(w, right_tile + 1) - 1) :
           /\ IsWall(floor, tile_x, tile_y)
           /\ CircleRectCollision(x, y, radius, tile_x * tile_size, tile_y * tile_size,
                                  tile_size, tile_size)

\* a movement that is refused as a whole when its destination is not free
MoveAllOrNothing(floor, w, h, m, dx, dy) ==
    IF ~CheckWallCollision(floor, w, h, m.x + dx, m.y + dy, m.radius)
    THEN [m EXCEPT !.x = m.x + dx, !.y = m.y + dy]
    ELSE m

\* Player.move_with_collision / Enemy.apply_movement: the horizontal move,
\* then the vertical move from the resulting x, each kept only if free
MoveWithCollision(floor, w, h, m, dx, dy) ==
    LET x1 == IF ~CheckWallCollision(floor, w, h, m.x + dx, m.y, m.radius)
              THEN m.x + dx ELSE m.x
        y1 == IF ~CheckWallCollision(floor, w, h, x1, m.y + dy, m.radius)
              THEN m.y + dy ELSE m.y
    IN  [m EXCEPT !.x = x1, !.y = y1]

\* CombatSystem.apply_knockback: the test made on a candidate position - the
\* tile under the centre is in the grid and is not a wall
KnockbackTileFree(floor, w, h, x, y) ==
    LET tile_x == x \div tile_size
        tile_y == y \div tile_size
    IN  0 <= tile_x /\ tile_x < w /\ 0 <= tile_y /\ tile_y < h /\ ~IsWall(floor, tile_x, tile_y)

\* CombatSystem.apply_knockback with the displacement (kx, ky): the full
\* displacement, else the first of the fractions 0.5, 0.25, 0.1 that passes
ApplyKnockback(floor, w, h, m, kx, ky) ==
    IF KnockbackTileFree(floor, w, h, m.x + kx, m.y + ky)
    THEN [m EXCEPT !.x = m.x + kx, !.y = m.y + ky]
    ELSE IF KnockbackTileFree(floor, w, h, m.x + kx \div 2, m.y + ky \div 2)
    THEN [m EXCEPT !.x = m.x + kx \div 2, !.y = m.y + ky \div 2]
    ELSE IF KnockbackTileFree(floor, w, h, m.x + kx \div 4, m.y + ky \div 4)
    THEN [m EXCEPT !.x = m.x + kx \div 4, !.y = m.y + ky \div 4]
    ELSE IF KnockbackTileFree(floor, w, h, m.x + kx \div 10, m.y + ky \div 10)
    THEN [m EXCEPT !.x = m.x + kx \div 10, !.y = m.y + ky \div 10]
    ELSE m

(***************************************************************************)
(* SpecMove: one entity moving on a generated level.  The level is the     *)
(* outcome of generate_level in which the first sampled room, 8 x 4 tiles  *)
(* at (1, 1), is the only accepted one.                                    *)
(***************************************************************************)
MoveLevelWidth == 24
MoveLevelHeight == 6
MoveRoom == <<1, 1, 8, 4>>
MoveFloor == CarveRoom({}, MoveRoom, MoveLevelWidth, MoveLevelHeight)

\* distance beyond the grid up to which positions are followed
OffGridSlack == 64

\* Level.generate_level: the spawn position in the first room
MoveSpawn == <<(MoveRoom[1] + MoveRoom[3] \div 2) * tile_size,
               (MoveRoom[2] + MoveRoom[4] \div 2) * tile_size>>

\* Level.spawn_enemies: centres of floor tiles more than 100 px from the spawn
EnemySpawns ==
    {<<t[1] * tile_size + tile_size \div 2, t[2] * tile_size + tile_size \div 2>> : t \in
        {u \in MoveFloor :
            LET wx == u[1] * tile_size + tile_size \div 2
                wy == u[2] * tile_size + tile_size \div 2
            IN  (wx - MoveSpawn[1]) * (wx - MoveSpawn[1])
                + (wy - MoveSpawn[2]) * (wy - MoveSpawn[2]) > 100 * 100}}

\* velocity * dt of one frame along one axis: 200 px/s for 0.02 s and for a
\* long frame of 0.32 s (dt = clock.tick(FPS) / 1000 has no upper limit)
StepInputs == {4, 64}
Displacements == {0} \cup StepInputs \cup {-d : d \in StepInputs}

\* knockback_distance of the war axe, pushed along one of the axes
KnockbackInputs == {<<80, 0>>, <<-80, 0>>, <<0, 80>>, <<0, -80>>}

InFollowedArea(m) ==
    /\ -OffGridSlack <= m.x /\ m.x <= MoveLevelWidth * tile_size + OffGridSlack
    /\ -OffGridSlack <= m.y /\ m.y <= MoveLevelHeight * tile_size + OffGridSlack

InitMove ==
    /\ \/ mover = [kind |-> "player", x |-> MoveSpawn[1], y |-> MoveSpawn[2],
                   radius |-> PlayerRadius]
       \/ \E p \in EnemySpawns :
             mover = [kind |-> "enemy", x |-> p[1], y |-> p[2], radius |-> EnemyRadius]
    /\ mlast = "spawn"
    /\ GameInit /\ BossIdle /\ HealthIdle /\ GenIdle /\ LaterIdle

notMove == <<gameVars, bossVars, healthVars, genVars, laterVars>>

\* Player.move_with_collision
PlayerMove ==
    /\ mover.kind = "player"
    /\ \E dx \in Displacements, dy \in Displacements :
          /\ InFollowedArea(MoveWithCollision(MoveFloor, MoveLevelWidth, MoveLevelHeight, mover, dx, dy))
          /\ mover' = MoveWithCollision(MoveFloor, MoveLevelWidth, MoveLevelHeight, mover, dx, dy)
    /\ mlast' = "move"
    /\ UNCHANGED notMove

\* Enemy.apply_movement
EnemyMove ==
    /\ mover.kind = "enemy"
    /\ \E dx \in Displacements, dy \in Displacements :
          /\ InFollowedArea(MoveWithCollision(MoveFloor, MoveLevelWidth, MoveLevelHeight, mover, dx, dy))
          /\ mover' = MoveWithCollision(MoveFloor, MoveLevelWidth, MoveLevelHeight, mover, dx, dy)
    /\ mlast' = "move"
    /\ UNCHANGED notMove

\* CombatSystem.attempt_melee_attack with a knockback weapon: apply_knockback
\* on an enemy that was hit
EnemyKnockback ==
    /\ mover.kind = "enemy"
    /\ \E k \in KnockbackInputs :
          mover' = ApplyKnockback(MoveFloor, MoveLevelWidth, MoveLevelHeight, mover, k[1], k[2])
    /\ mlast' = "knockback"
    /\ UNCHANGED notMove

NextMove == PlayerMove \/ EnemyMove \/ EnemyKnockback

SpecMove == InitMove /\ [][NextMove]_vars

\* C5: once move_with_collision / apply_movement has run, the entity's circle
\* does not overlap any wall tile.
C5_NoWallOverlapAfterMove ==
    mlast = "move" =>
        ~CheckWallCollision(MoveFloor, MoveLevelWidth, MoveLevelHeight,
                            mover.x, mover.y, mover.radius)

\* C7: after movement resolution the position lies inside the grid.
C7_PositionInsideGrid ==
    mlast = "move" =>
        /\ 0 <= mover.x /\ mover.x < MoveLevelWidth * tile_size
        /\ 0 <= mover.y /\ mover.y < MoveLevelHeight * tile_size

(***************************************************************************)
(* SpecGen: Level.generate_level (level.py) on levels of small sizes.      *)
(***************************************************************************)
\* largest level width and height generated
MaxGenSize == 7
\* attempts of generate_rooms followed (the source makes 100; a rejected
\* attempt changes nothing)
MaxAttempts == 3
\* generate_rooms stops at this many rooms
MaxRooms == 8

\* Level.generate_rooms: min_room_size and max_room_size
MinRoomSize(w) == Min(4, Max(2, w \div 4))
MaxRoomSize(w, h) == Min(12, Max(MinRoomSize(w) + 1, Max(w \div 3, h \div 3)))

\* Level.room_overlaps with one existing room (one tile of padding)
RoomsOverlap(r1, r2) ==
    /\ r1[1] < r2[1] + r2[3] + 1 /\ r1[1] + r1[3] + 1 > r2[1]
    /\ r1[2] < r2[2] + r2[4] + 1 /\ r1[2] + r1[4] + 1 > r2[2]

\* Level.room_overlaps
RoomOverlaps(new_room, rooms) ==
    \E i \in DOMAIN rooms : RoomsOverlap(new_room, rooms[i])

\* Level.carve_corridor: vertical when x1 = x2, else horizontal along y1;
\* tiles outside the grid are skipped
CarveCorridor(floor, x1, y1, x2, y2, w, h) ==
    IF x1 = x2
    THEN floor \cup {<<x1, y>> : y \in {yy \in Min(y1, y2) .. Max(y1, y2) :
                                          0 <= x1 /\ x1 < w /\ 0 <= yy /\ yy < h}}
    ELSE floor \cup {<<x, y1>> : x \in {xx \in Min(x1, x2) .. Max(x1, x2) :
                                          0 <= xx /\ xx < w /\ 0 <= y1 /\ y1 < h}}

\* Level.connect_rooms: the L-shaped corridor between two consecutive rooms
ConnectPair(floor, room1, room2, horizontalFirst, w, h) ==
    LET x1 == room1[1] + room1[3] \div 2
        y1 == room1[2] + room1[4] \div 2
        x2 == room2[1] + room2[3] \div 2
        y2 == room2[2] + room2[4] \div 2
    IN  IF horizontalFirst
        THEN CarveCorridor(CarveCorridor(floor, x1, y1, x2, y1, w, h), x2, y1, x2, y2, w, h)
        ELSE CarveCorridor(CarveCorridor(floor, x1, y1, x1, y2, w, h), x1, y2, x2, y2, w, h)

\* Level.generate_level: the spawn position
SpawnPosition(rooms) ==
    IF Len(rooms) > 0
    THEN <<(rooms[1][1] + rooms[1][3] \div 2) * tile_size,
           (rooms[1][2] + rooms[1][4] \div 2) * tile_size>>
    ELSE <<tile_size * 2, tile_size * 2>>

InitGen ==
    /\ \E w \in 1 .. MaxGenSize, h \in 1 .. MaxGenSize :
          gen = [pc |-> "rooms", width |-> w, height |-> h, floor |-> {}, rooms |-> <<>>,
                 attempts |-> MaxAttempts, next |-> 1, spawn_position |-> <<0, 0>>]
    /\ GameInit /\ BossIdle /\ HealthIdle /\ MoveIdle /\ LaterIdle

notGen == <<gameVars, bossVars, healthVars, moveVars, laterVars>>

\* Level.generate_rooms: one pass of the attempt loop
RoomAttempt ==
    /\ gen.pc = "rooms"
    /\ \E room_width \in MinRoomSize(gen.width) .. MaxRoomSize(gen.width, gen.height),
          room_height \in MinRoomSize(gen.width) .. MaxRoomSize(gen.width, gen.height) :
          LET max_x == Max(1, gen.width - room_width - 1)
              max_y == Max(1, gen.height - room_height - 1)
          IN  \E room_x \in 1 .. max_x, room_y \in 1 .. max_y :
                 LET new_room == <<room_x, room_y, room_width, room_height>>
                     accepted == ~(max_x < 1 \/ max_y < 1) /\ ~RoomOverlaps(new_room, gen.rooms)
                     rooms1 == IF accepted THEN Append(gen.rooms, new_room) ELSE gen.rooms
                     floor1 == IF accepted
                               THEN CarveRoom(gen.floor, new_room, gen.width, gen.height)
                               ELSE gen.floor
                     over == Len(rooms1) >= MaxRooms \/ gen.attempts - 1 = 0
                 IN  gen' = [gen EXCEPT !.rooms = rooms1,
                                        !.floor = floor1,
                                        !.attempts = gen.attempts - 1,
                                        !.pc = IF ~over THEN "rooms"
                                               ELSE IF Len(rooms1) >= 2 THEN "connect"
                                               ELSE "spawn"]
    /\ UNCHANGED notGen

\* Level.connect_rooms: one pass of the loop over consecutive rooms
ConnectRooms ==
    /\ gen.pc = "connect"
    /\ \E horizontalFirst \in BOOLEAN :
          gen' = [gen EXCEPT !.floor = ConnectPair(gen.floor, gen.rooms[gen.next],
                                                   gen.rooms[gen.next + 1], horizontalFirst,
                                                   gen.width, gen.height),
                             !.next = gen.next + 1,
                             !.pc = IF gen.next + 1 <= Len(gen.rooms) - 1
                                    THEN "connect" ELSE "spawn"]
    /\ UNCHANGED notGen

\* Level.generate_level: "Set spawn position in the first room"
SetSpawn ==
    /\ gen.pc = "spawn"
    /\ gen' = [gen EXCEPT !.spawn_position = SpawnPosition(gen.rooms), !.pc = "done"]
    /\ UNCHANGED notGen

NextGen == RoomAttempt \/ ConnectRooms \/ SetSpawn

SpecGen == InitGen /\ [][NextGen]_vars

Neighbours(s, t) ==
    \/ s[1] = t[1] /\ (s[2] = t[2] + 1 \/ s[2] = t[2] - 1)
    \/ s[2] = t[2] /\ (s[1] = t[1] + 1 \/ s[1] = t[1] - 1)

RECURSIVE Flood(_, _, _)
\* the floor tiles reached from frontier by 4-neighbour steps over floor
Flood(floor, seen, frontier) ==
    IF frontier = {} THEN seen
    ELSE LET reached == {t \in floor \ seen : \E s \in frontier : Neighbours(s, t)}
         IN  Flood(floor, seen \cup reached, reached)

\* the tile that contains the spawn position
SpawnTile == <<gen.spawn_position[1] \div tile_size, gen.spawn_position[2] \div tile_size>>

ReachableFromSpawn ==
    IF SpawnTile \in gen.floor THEN Flood(gen.floor, {SpawnTile}, {SpawnTile}) ELSE {}

\* C9: after generation every floor tile is reachable from the spawn tile by
\* 4-neighbour steps through floor tiles only.
C9_FloorConnected ==
    gen.pc = "done" => gen.floor \subseteq ReachableFromSpawn

\* C10: after generate_level the tile that contains spawn_position is inside
\* the grid and is a floor tile.
C10_SpawnOnFloor ==
    gen.pc = "done" =>
        /\ 0 <= SpawnTile[1] /\ SpawnTile[1] < gen.width
        /\ 0 <= SpawnTile[2] /\ SpawnTile[2] < gen.height
        /\ SpawnTile \in gen.floor


(***************************************************************************)
(* SpecAI: one Enemy object under Enemy.update, Enemy.take_damage and the  *)
(* Turn Coat spell.  Times are tenths of a second.  The code only compares *)
(* current_time - last_raycast_time and current_time -                     *)
(* last_player_seen_time with fixed thresholds, so the model keeps these   *)
(* two differences and lets them saturate just above their threshold.      *)
(* Enemy.apply_knockback (enemy.py:77-92) has no caller, so the state      *)
(* knocked_back is never entered and is left out.                          *)
(***************************************************************************)
VisionRange == 180
RaycastInterval == 3
GiveUpTime == 50
MindControlTime == 100
BaseSightRange == 150

EnemyTypes == {"basic", "fast", "heavy", "ranged"}

DetermineAiStrategy(t) ==
    CASE t = "basic" -> "aggressive"
      [] t = "fast" -> "flanking"
      [] t = "heavy" -> "tank"
      [] t = "ranged" -> "kiting"
      [] OTHER -> "aggressive"

TypeHealth(t) ==
    CASE t = "fast" -> 30 [] t = "heavy" -> 80 [] t = "ranged" -> 40 [] OTHER -> 50

TypeAttackRange(t) ==
    CASE t = "heavy" -> 25 [] t = "ranged" -> 100 [] OTHER -> 35

\* sight_range *= 1.6 for fast, *= 1.8 for ranged
TypeSightRange(t) ==
    CASE t = "fast" -> (BaseSightRange * 16) \div 10
      [] t = "ranged" -> (BaseSightRange * 18) \div 10
      [] OTHER -> BaseSightRange

TypeWeaponRange(t) ==
    CASE t = "heavy" -> 50 [] t = "ranged" -> 100 [] OTHER -> 45

Saturate(t, cap) == Min(t, cap)

\* Enemy.__init__ at pygame time `born` (last_raycast_time and
\* last_player_seen_time start at 0, so both differences equal the clock)
NewEnemy(t, born) ==
    [pc |-> "ai",
     enemy_type |-> t,
     ai_strategy |-> DetermineAiStrategy(t),
     state |-> "idle",
     last_seen |-> FALSE,            \* last_seen_player_pos is not None
     since_raycast |-> Saturate(born, RaycastInterval),
     since_seen |-> Saturate(born, GiveUpTime + 1),
     sight_range |-> TypeSightRange(t),
     attack_range |-> TypeAttackRange(t),
     weapon_range |-> TypeWeaponRange(t),
     max_health |-> TypeHealth(t),
     current_health |-> TypeHealth(t),
     mind_controlled |-> FALSE,
     mind_left |-> 0,                \* mind_control_end_time - current_time
     returned |-> FALSE,             \* return value of the last take_damage
     frame |-> 0]                    \* parity of the number of updates so far

EnemyIsAlive(e) == e.current_health > 0 /\ e.state # "dead"

UpdateAiState(e, can_see_player, player_distance) ==
    IF can_see_player /\ player_distance <= VisionRange
    THEN LET ray == e.since_raycast >= RaycastInterval
             has_line_of_sight == IF ray THEN TRUE ELSE e.last_seen
             e1 == IF ray THEN [e EXCEPT !.since_raycast = 0] ELSE e
         IN  IF has_line_of_sight
             THEN [e1 EXCEPT !.last_seen = TRUE, !.since_seen = 0,
                             !.state = IF player_distance <= e.attack_range
                                       THEN "attacking" ELSE "chasing"]
             ELSE e1
    ELSE IF e.state = "chasing" /\ e.last_seen
    THEN IF e.since_seen > GiveUpTime
         THEN [e EXCEPT !.state = "idle", !.last_seen = FALSE]
         ELSE e
    ELSE IF e.state = "attacking"
    THEN [e EXCEPT !.state = IF e.last_seen THEN "chasing" ELSE "idle"]
    ELSE e

\* chase_behavior: the only state change is the early switch to attacking
ChaseBehavior(e, target_distance) ==
    IF target_distance * 10 <= e.weapon_range * 13
    THEN [e EXCEPT !.state = "attacking"]
    ELSE e

StrategicChaseBehavior(e, target_distance) ==
    IF e.ai_strategy = "kiting" THEN [e EXCEPT !.state = "kiting"]
    ELSE IF e.ai_strategy = "flanking" THEN [e EXCEPT !.state = "flanking"]
    ELSE ChaseBehavior(e, target_distance)


\* mind_control_behavior leaves the state mind_controlled or sets attacking,
\* chasing (a target enemy exists) or idle (no target, back at the spawn)
McOutcomes == {"mind_controlled", "attacking", "chasing", "idle"}

\* distance from the enemy to chase_behavior's target: the player when seen
\* in this update (last_seen_player_pos was just refreshed) or when no
\* position is remembered, else the remembered position
TargetDistance(e, player_distance, memory_distance) ==
    IF e.last_seen /\ e.since_seen > 0 THEN memory_distance ELSE player_distance

EnemyUpdate(e, dt, can_see_player, player_distance, memory_distance, mc) ==
    IF ~EnemyIsAlive(e) THEN [e EXCEPT !.frame = 1 - @]
    ELSE
    LET e0 == [e EXCEPT !.frame = 1 - @,
                        !.since_raycast = Saturate(@ + dt, RaycastInterval),
                        !.since_seen = Saturate(@ + dt, GiveUpTime + 1),
                        !.mind_left = Max(0, @ - dt)]
        e1 == IF e0.mind_controlled /\ e0.mind_left = 0
              THEN [e0 EXCEPT !.mind_controlled = FALSE] ELSE e0
        e2 == IF ~e1.mind_controlled
              THEN UpdateAiState(e1, can_see_player, player_distance)
              ELSE [e1 EXCEPT !.state = mc]
    IN  IF e2.state = "chasing"
        THEN StrategicChaseBehavior(e2,
                 TargetDistance(e2, player_distance, memory_distance))
        ELSE e2

EnemyTakeDamageNoClamp(e, amount) ==
    LET h == e.current_health - amount
    IN  IF h <= 0
        THEN [e EXCEPT !.current_health = h, !.state = "dead", !.returned = TRUE]
        ELSE [e EXCEPT !.current_health = h, !.returned = FALSE]

EnemyTakeDamage(e, amount) ==
    LET h == Max(0, e.current_health - amount)
    IN  IF h <= 0
        THEN [e EXCEPT !.current_health = h, !.state = "dead", !.returned = TRUE]
        ELSE [e EXCEPT !.current_health = h, !.returned = FALSE]

DtInputs == {2, 26}
DistInputs == {30, 50, 120, 200}
MemoryInputs == {50, 200}
BornInputs == {0, 60}
AiDamageInputs == {0, 15, 50}

InitAI ==
    /\ \E t \in EnemyTypes, born \in BornInputs : ai = NewEnemy(t, born)
    /\ ric = IdleLater /\ melee = IdleLater /\ vis = IdleLater /\ inv = IdleLater
    /\ ThirdIdle
    /\ GameInit /\ BossIdle /\ HealthIdle /\ MoveIdle /\ GenIdle

notAI == <<gameVars, bossVars, healthVars, moveVars, genVars,
           ricVars, meleeVars, visVars, invVars, thirdVars>>

AiUpdate ==
    /\ \E dt \in DtInputs, can_see_player \in BOOLEAN, d \in DistInputs,
          m \in MemoryInputs, mc \in McOutcomes :
          ai' = EnemyUpdate(ai, dt, can_see_player, d, m, mc)
    /\ UNCHANGED notAI

AiTakeDamage ==
    /\ \E amount \in AiDamageInputs : ai' = EnemyTakeDamage(ai, amount)
    /\ UNCHANGED notAI

\* CombatSystem.update_projectiles: a Turn Coat projectile hits a living enemy
AiMindControl ==
    /\ EnemyIsAlive(ai)
    /\ ai' = [ai EXCEPT !.mind_controlled = TRUE, !.mind_left = MindControlTime]
    /\ UNCHANGED notAI

NextAI == AiUpdate \/ AiTakeDamage \/ AiMindControl

SpecAI == InitAI /\ [][NextAI]_vars

\* C11: an idle enemy that has line of sight to the player within its sight
\* range ends the update in state chasing when the distance exceeds
\* attack_range and in state attacking otherwise, for every archetype.
C11_IdleAcquiresTarget ==
    [][\A dt \in DtInputs, d \in DistInputs, m \in MemoryInputs, mc \in McOutcomes :
          (/\ ai.state = "idle" /\ EnemyIsAlive(ai)
           /\ d <= ai.sight_range
           /\ ai' = EnemyUpdate(ai, dt, TRUE, d, m, mc))
          => ai'.state = (IF d > ai.attack_range THEN "chasing" ELSE "attacking")]_vars


\* Game.run calls Game.update once per frame for as long as the game runs
SpecAIFair == SpecAI /\ WF_vars(AiUpdate)

C18_TakeDamageAndDeadTerminal ==
    [][/\ \A a \in AiDamageInputs :
             ai' = EnemyTakeDamage(ai, a) =>
                /\ ai'.current_health = Max(0, ai.current_health - a)
                /\ a < ai.current_health =>
                      /\ ai'.current_health = ai.current_health - a
                      /\ ~ai'.returned
                      /\ ai'.state = ai.state
                /\ ai'.returned = (ai'.current_health = 0)
                /\ ai'.current_health = 0 => ai'.state = "dead"
       /\ ~EnemyIsAlive(ai) => ~EnemyIsAlive(ai')
       /\ ai'.state = "dead" => ai'.current_health = 0]_vars

\* an enemy that had seen the player has been killed by take_damage
C18_Witness ==
    /\ ai.state = "dead" /\ ai.returned /\ ai.current_health = 0
    /\ ai.last_seen


(***************************************************************************)
(* SpecRic: one RicochetProjectile of a RicochetEnemy, flying in the room  *)
(* of SpecMove.  Times are tenths of a second, positions are pixels, the   *)
(* direction is a unit vector scaled by 5 (<<3, 4>> is (0.6, 0.8)).        *)
(***************************************************************************)
ProjectileSpeed == 250
ProjectileRadius == 4
MaxLifetime == 50
EnemyMaxRicochets == 2

\* Level.is_wall(x, y) is called by RicochetProjectile.update but defined by
\* neither Level class of the sources; modelled as "the tile under the pixel
\* is not a floor tile".
IsWallAt(x, y) == IsWall(MoveFloor, x \div tile_size, y \div tile_size)

\* int(damage * 0.9)
DecayDamage(damage) == (damage * 9) \div 10

RECURSIVE DamageAfter(_, _)
DamageAfter(damage, bounces) ==
    IF bounces = 0 THEN damage ELSE DamageAfter(DecayDamage(damage), bounces - 1)

NewRicochetProjectile(pos, dir, damage, max_ricochets, target) ==
    [pc |-> "ric", x |-> pos[1], y |-> pos[2], direction |-> dir,
     base_damage |-> damage, damage |-> damage,
     max_ricochets |-> max_ricochets, ricochets_left |-> max_ricochets,
     lifetime |-> 0,
     active |-> TRUE,          \* still in ricochet_projectiles
     dealt |-> 0,              \* damage handed to player.take_damage
     player |-> target]        \* player.position

\* the position the projectile moves to before the wall test
MovedTo(p, dt) ==
    <<p.x + (p.direction[1] * ProjectileSpeed * dt) \div 50,
      p.y + (p.direction[2] * ProjectileSpeed * dt) \div 50>>

WallContact(p, dt) == IsWallAt(MovedTo(p, dt)[1], MovedTo(p, dt)[2])

Bounce(p, nx, ny) ==
    LET q == IF IsWallAt(p.x, ny)
             THEN [p EXCEPT !.direction = <<-p.direction[1], p.direction[2]>>,
                            !.y = ny]
             ELSE IF IsWallAt(nx, p.y)
             THEN [p EXCEPT !.direction = <<p.direction[1], -p.direction[2]>>,
                            !.x = nx]
             ELSE [p EXCEPT !.direction = <<-p.direction[1], -p.direction[2]>>]
    IN  [q EXCEPT !.ricochets_left = @ - 1, !.damage = DecayDamage(@)]

RicochetUpdateNoGuard(p, dt) ==
    LET p1 == [p EXCEPT !.lifetime = @ + dt]
        n == MovedTo(p, dt)
    IN  IF IsWallAt(n[1], n[2])
        THEN Bounce(p1, n[1], n[2])
        ELSE [p1 EXCEPT !.x = n[1], !.y = n[2]]

RicochetUpdate(p, dt) ==
    LET p1 == [p EXCEPT !.lifetime = @ + dt]
        n == MovedTo(p, dt)
    IN  IF IsWallAt(n[1], n[2]) /\ p.ricochets_left > 0
        THEN Bounce(p1, n[1], n[2])
        ELSE [p1 EXCEPT !.x = n[1], !.y = n[2]]

CheckCollisionWithTarget(p, target_radius) ==
    LET dx == p.player[1] - p.x
        dy == p.player[2] - p.y
    IN  dx * dx + dy * dy
            <= (ProjectileRadius + target_radius) * (ProjectileRadius + target_radius)

ShouldRemove(p) == p.lifetime >= MaxLifetime \/ p.ricochets_left < 0

\* RicochetEnemy.update for one projectile of ricochet_projectiles
ProjectileStep(p, dt) ==
    LET q == RicochetUpdate(p, dt)
    IN  IF CheckCollisionWithTarget(q, PlayerRadius)
        THEN [q EXCEPT !.dealt = q.damage, !.active = FALSE]
        ELSE IF ShouldRemove(q) THEN [q EXCEPT !.active = FALSE]
        ELSE q


DirInputs == {<<5, 0>>, <<-5, 0>>, <<0, 5>>, <<0, -5>>,
              <<3, 4>>, <<-3, 4>>, <<4, -3>>, <<-4, -3>>}
ShooterSpots == {<<48, 48>>, <<160, 96>>}
PlayerSpots == {<<272, 144>>, <<160, 48>>, <<50, 100>>}
RicDamageInputs == {20, 22}
RicDtInputs == {1, 2}

\* RicochetEnemy.attack_player appends a projectile aimed at the player
InitRic ==
    /\ \E pos \in ShooterSpots, dir \in DirInputs, damage \in RicDamageInputs,
          n \in 0 .. EnemyMaxRicochets, target \in PlayerSpots :
          ric = NewRicochetProjectile(pos, dir, damage, n, target)
    /\ ai = IdleLater /\ melee = IdleLater /\ vis = IdleLater /\ inv = IdleLater
    /\ ThirdIdle
    /\ GameInit /\ BossIdle /\ HealthIdle /\ MoveIdle /\ GenIdle

notRic == <<gameVars, bossVars, healthVars, moveVars, genVars,
            aiVars, meleeVars, visVars, invVars, thirdVars>>

RicTick ==
    /\ ric.active
    /\ \E dt \in RicDtInputs : ric' = ProjectileStep(ric, dt)
    /\ UNCHANGED notRic

\* the player walks on between two updates of the enemy
RicPlayerMove ==
    /\ ric.active
    /\ \E target \in PlayerSpots \ {ric.player} : ric' = [ric EXCEPT !.player = target]
    /\ UNCHANGED notRic

NextRic == RicTick \/ RicPlayerMove

SpecRic == InitRic /\ [][NextRic]_vars

\* C12: the update in which a projectile with no ricochets left touches a
\* wall removes it (as does the expiry of its lifetime), so an active
\* projectile never flies on inside a wall.
C12_RemovedAtWallAfterLastBounce ==
    [][\A dt \in RicDtInputs :
          (/\ ric.active /\ ric.ricochets_left = 0
           /\ WallContact(ric, dt)
           /\ ric' = ProjectileStep(ric, dt))
          => ~ric'.active]_vars

melee_range == 30
melee_arc == 60

MeleeWeapons == {"none", "sword", "spear", "mace", "war_axe"}

\* MeleeWeapon.range_multiplier, times 100
RangeMultiplier(w) ==
    CASE w = "sword" -> 150 [] w = "spear" -> 325 [] w = "mace" -> 110
      [] w = "war_axe" -> 130 [] OTHER -> 100

\* MeleeWeapon.attack_arc in degrees (the bare-handed arc is melee_arc)
AttackArc(w) ==
    CASE w = "sword" -> 90 [] w = "spear" -> 15 [] w = "mace" -> 145
      [] w = "war_axe" -> 160 [] OTHER -> melee_arc

\* weapon range in tenths of a pixel
WeaponRange(w) ==
    IF w = "none" THEN melee_range * 10
    ELSE (melee_range * RangeMultiplier(w)) \div 10

Abs(n) == IF n < 0 THEN -n ELSE n

\* min(angle_diff, 2 * math.pi - angle_diff) in degrees
NormalizedAngleDiff(target_angle, attack_angle) ==
    LET angle_diff == Abs(target_angle - attack_angle)
    IN  Min(angle_diff, 360 - angle_diff)

IsInMeleeRange(w, center_distance, target_angle, target_radius, attack_angle) ==
    LET max_distance == WeaponRange(w) + target_radius * 10
    IN  IF center_distance > max_distance THEN FALSE
        ELSE 2 * NormalizedAngleDiff(target_angle, attack_angle) <= melee_arc

MeleeDistances == {200, 450, 520, 1100, 1200}
MeleeBearings == {-135, -90, -20, 0, 20, 40, 70, 180}
MeleeAttackAngles == {-170, -90, 0, 10, 90, 180}
MeleeTargetRadii == {12, 16}

InitMelee ==
    /\ \E w \in MeleeWeapons, d \in MeleeDistances, b \in MeleeBearings,
          r \in MeleeTargetRadii :
          melee = [pc |-> "aim", weapon |-> w, center_distance |-> d,
                   target_angle |-> b, target_radius |-> r,
                   attack_angle |-> 0, result |-> FALSE]
    /\ ai = IdleLater /\ ric = IdleLater /\ vis = IdleLater /\ inv = IdleLater
    /\ ThirdIdle
    /\ GameInit /\ BossIdle /\ HealthIdle /\ MoveIdle /\ GenIdle

notMelee == <<gameVars, bossVars, healthVars, moveVars, genVars,
              aiVars, ricVars, visVars, invVars, thirdVars>>

\* attempt_melee_attack: the attack angle comes from the mouse position and
\* every living enemy is tested with is_in_melee_range
MeleeAttack ==
    /\ \E a \in MeleeAttackAngles :
          melee' = [melee EXCEPT !.pc = "done", !.attack_angle = a,
                        !.result = IsInMeleeRange(melee.weapon, melee.center_distance,
                                       melee.target_angle, melee.target_radius, a)]
    /\ UNCHANGED notMelee

NextMelee == MeleeAttack

SpecMelee == InitMelee /\ [][NextMelee]_vars

\* C14: is_in_melee_range is true exactly when the centre distance is at
\* most weapon range + target radius and the angle between attack direction
\* and target direction, normalized into [0, 180], is at most half the arc
\* of the equipped weapon.
C14_MeleeRangeIffDistanceAndWeaponArc ==
    melee.pc = "done" =>
        melee.result =
            (/\ melee.center_distance
                    <= WeaponRange(melee.weapon) + melee.target_radius * 10
             /\ 2 * NormalizedAngleDiff(melee.target_angle, melee.attack_angle)
                    <= AttackArc(melee.weapon))


(***************************************************************************)
(* SpecVis: the VisibilitySystem of the room of SpecMove while the player  *)
(* walks.  A ray direction is (cos, sin) in thousandths; the model casts   *)
(* the eight rays of the compass instead of the code's 360.                *)
(***************************************************************************)
vis_sight_range == 200
ray_step == 2

RayDirections == {<<1000, 0>>, <<707, 707>>, <<0, 1000>>, <<-707, 707>>,
                  <<-1000, 0>>, <<-707, -707>>, <<0, -1000>>, <<707, -707>>}

InGrid(tx, ty) ==
    /\ 0 <= tx /\ tx < MoveLevelWidth
    /\ 0 <= ty /\ ty < MoveLevelHeight

\* the tile under the ray point at current_distance from start_pos
RayTile(start_pos, dir, current_distance) ==
    <<(start_pos[1] * 1000 + dir[1] * current_distance) \div (tile_size * 1000),
      (start_pos[2] * 1000 + dir[2] * current_distance) \div (tile_size * 1000)>>

\* the distances at which cast_ray's loop looks at a tile
RayDistances == {k * ray_step : k \in 0 .. ((vis_sight_range - 1) \div ray_step)}

\* cast_ray leaves its loop at this distance: outside the grid (before
\* marking) or on a wall tile (after marking)
RayStops(start_pos, dir, d) ==
    LET t == RayTile(start_pos, dir, d)
    IN  ~InGrid(t[1], t[2]) \/ IsWall(MoveFloor, t[1], t[2])

\* VisibilitySystem.cast_ray: the tiles one ray adds to visible_tiles
CastRay(start_pos, dir) ==
    LET stops == {d \in RayDistances : RayStops(start_pos, dir, d)}
        last == IF stops = {} THEN vis_sight_range
                ELSE CHOOSE d \in stops : \A e \in stops : d <= e
    IN  {t \in {RayTile(start_pos, dir, d) : d \in {e \in RayDistances : e <= last}} :
            InGrid(t[1], t[2])}

RaysFrom(player_position) ==
    UNION {CastRay(player_position, dir) : dir \in RayDirections}

UpdateVisibilityNoClear(v, player_position) ==
    LET visible == v.visible_tiles \cup RaysFrom(player_position)
    IN  [v EXCEPT !.visible_tiles = visible,
                  !.explored_tiles = @ \cup visible,
                  !.player = player_position]

\* VisibilitySystem.update_visibility
UpdateVisibility(v, player_position) ==
    LET visible == {} \cup RaysFrom(player_position)
    IN  [v EXCEPT !.visible_tiles = visible,
                  !.explored_tiles = @ \cup visible,
                  !.player = player_position]

\* player positions: in the room, and one outside the grid
VisPlayerSpots == {<<48, 48>>, <<144, 80>>, <<272, 144>>, <<272, 48>>,
                   <<48, 144>>, <<200, 100>>, <<-16, -16>>}

InitVis ==
    /\ vis = [pc |-> "vis", visible_tiles |-> {}, explored_tiles |-> {},
              player |-> MoveSpawn]
    /\ ai = IdleLater /\ ric = IdleLater /\ melee = IdleLater /\ inv = IdleLater
    /\ ThirdIdle
    /\ GameInit /\ BossIdle /\ HealthIdle /\ MoveIdle /\ GenIdle

notVis == <<gameVars, bossVars, healthVars, moveVars, genVars,
            aiVars, ricVars, meleeVars, invVars, thirdVars>>

\* Game.update: the player has moved, update_visibility(player.position)
VisUpdate ==
    /\ \E p \in VisPlayerSpots : vis' = UpdateVisibility(vis, p)
    /\ UNCHANGED notVis

NextVis == VisUpdate

SpecVis == InitVis /\ [][NextVis]_vars

PlayerTile(v) == <<v.player[1] \div tile_size, v.player[2] \div tile_size>>

\* C15: after every update_visibility, visible_tiles is exactly what the rays
\* of that update reached, holds the player's tile when the player is inside
\* the grid and is contained in explored_tiles, and explored_tiles has lost
\* no tile.
C15_VisibleRebuiltExploredGrows ==
    [][/\ vis'.visible_tiles = RaysFrom(vis'.player)
       /\ InGrid(PlayerTile(vis')[1], PlayerTile(vis')[2])
             => PlayerTile(vis') \in vis'.visible_tiles
       /\ vis'.visible_tiles \subseteq vis'.explored_tiles
       /\ vis.explored_tiles \subseteq vis'.explored_tiles]_vars

\* tiles seen earlier are explored but no longer visible
C15_Witness ==
    /\ vis.visible_tiles # {}
    /\ PlayerTile(vis) \in vis.visible_tiles
    /\ vis.explored_tiles \ vis.visible_tiles # {}


(***************************************************************************)
(* SpecInv: the ItemManager's ground list and the PlayerInventory under    *)
(* pickups (E), spell drops (Q) and player movement.  An item is its       *)
(* identity; items_on_ground is a list of [id, position] entries.          *)
(***************************************************************************)
pickup_distance == 32

\* one item of each kind the level can spawn, two where a swap needs them
ItemCategory(id) ==
    CASE id \in {1, 2} -> "melee_weapon"
      [] id = 3 -> "enchantment"
      [] id \in {4, 5} -> "spell"
      [] OTHER -> "health"
ItemIds == {1, 2, 3, 4, 5, 6}
EquipmentIds == {id \in ItemIds : ItemCategory(id) # "health"}
Categories == {"melee_weapon", "enchantment", "spell"}
NoItem == 0

ItemSpots == {<<48, 48>>, <<208, 112>>}
InvPlayerSpots == {<<48, 80>>, <<208, 112>>, <<144, 80>>}

NearEnough(item_pos, player_pos) ==
    (player_pos[1] - item_pos[1]) * (player_pos[1] - item_pos[1])
    + (player_pos[2] - item_pos[2]) * (player_pos[2] - item_pos[2])
        <= pickup_distance * pickup_distance

\* ItemManager.check_item_pickup: index of the first item in reach, or 0
CheckItemPickup(ground, player_pos) ==
    LET near == {i \in 1 .. Len(ground) : NearEnough(ground[i].position, player_pos)}
    IN  IF near = {} THEN 0 ELSE CHOOSE i \in near : \A j \in near : i <= j

\* ItemManager.pickup_item: items_on_ground.remove(item)
PickupItem(ground, id) ==
    LET at == {i \in 1 .. Len(ground) : ground[i].id = id}
    IN  IF at = {} THEN ground
        ELSE RemoveAt(ground, CHOOSE i \in at : \A j \in at : i <= j)

\* ItemManager.drop_item
DropItem(ground, id, position) == Append(ground, [id |-> id, position |-> position])

TryPickupItemNoDrop(v, at_full_health) ==
    LET i == CheckItemPickup(v.items_on_ground, v.player)
    IN  IF i = 0 THEN v
        ELSE LET id == v.items_on_ground[i].id
                 cat == ItemCategory(id)
             IN  IF cat = "health"
                 THEN IF at_full_health THEN v
                      ELSE [v EXCEPT !.items_on_ground = PickupItem(@, id),
                                     !.used = @ \cup {id}]
                 ELSE [v EXCEPT !.slots[cat] = id,
                                !.items_on_ground = PickupItem(@, id)]

\* Player.try_pickup_item with PlayerInventory.equip_item
TryPickupItem(v, at_full_health) ==
    LET i == CheckItemPickup(v.items_on_ground, v.player)
    IN  IF i = 0 THEN v
        ELSE LET id == v.items_on_ground[i].id
                 cat == ItemCategory(id)
             IN  IF cat = "health"
                 THEN IF at_full_health THEN v
                      ELSE [v EXCEPT !.items_on_ground = PickupItem(@, id),
                                     !.used = @ \cup {id}]
                 ELSE LET old_item == v.slots[cat]
                          ground == PickupItem(v.items_on_ground, id)
                      IN  [v EXCEPT !.slots[cat] = id,
                                    !.items_on_ground =
                                        IF old_item # NoItem
                                        THEN DropItem(ground, old_item, v.player)
                                        ELSE ground]

\* Player.drop_spell with PlayerInventory.drop_spell
DropSpell(v) ==
    IF v.slots["spell"] # NoItem
    THEN [v EXCEPT !.slots["spell"] = NoItem,
                   !.items_on_ground = DropItem(@, v.slots["spell"], v.player)]
    ELSE v


\* ItemManager.spawn_random_items and PlayerInventory.__init__
InitInv ==
    /\ \E place \in [ItemIds -> ItemSpots] :
          inv = [pc |-> "inv",
                 items_on_ground |->
                     [i \in 1 .. Cardinality(ItemIds) |-> [id |-> i, position |-> place[i]]],
                 slots |-> [c \in Categories |-> NoItem],
                 used |-> {},
                 player |-> MoveSpawn]
    /\ ai = IdleLater /\ ric = IdleLater /\ melee = IdleLater /\ vis = IdleLater
    /\ ThirdIdle
    /\ GameInit /\ BossIdle /\ HealthIdle /\ MoveIdle /\ GenIdle

notInv == <<gameVars, bossVars, healthVars, moveVars, genVars,
            aiVars, ricVars, meleeVars, visVars, thirdVars>>

InvPlayerMove ==
    /\ \E p \in InvPlayerSpots \ {inv.player} : inv' = [inv EXCEPT !.player = p]
    /\ UNCHANGED notInv

\* handle_playing_events: K_e
InvTryPickup ==
    /\ \E at_full_health \in BOOLEAN : inv' = TryPickupItem(inv, at_full_health)
    /\ UNCHANGED notInv

\* handle_playing_events: K_q
InvDropSpell ==
    /\ inv' = DropSpell(inv)
    /\ UNCHANGED notInv

NextInv == InvPlayerMove \/ InvTryPickup \/ InvDropSpell

SpecInv == InitInv /\ [][NextInv]_vars

GroundIds(v) == {v.items_on_ground[i].id : i \in 1 .. Len(v.items_on_ground)}
SlotIds(v) == {v.slots[c] : c \in Categories} \ {NoItem}
Places(v, id) ==
    Cardinality({i \in 1 .. Len(v.items_on_ground) : v.items_on_ground[i].id = id})
    + Cardinality({c \in Categories : v.slots[c] = id})

\* C16: every weapon, enchantment and spell is in exactly one place (the
\* ground list or one inventory slot), a slot holds at most one item, of its
\* own category, and a pickup into an occupied slot puts the item that was
\* there on the ground at the player's position.
C16_ItemsConserved ==
    [][/\ \A id \in EquipmentIds : Places(inv', id) = 1
       /\ \A c \in Categories :
             inv'.slots[c] # NoItem => ItemCategory(inv'.slots[c]) = c
       /\ \A c \in Categories :
             (inv.slots[c] # NoItem /\ inv'.slots[c] \notin {NoItem, inv.slots[c]})
                => \E i \in 1 .. Len(inv'.items_on_ground) :
                      inv'.items_on_ground[i] =
                          [id |-> inv.slots[c], position |-> inv.player]]_vars

\* a second weapon was picked up and the first lies where the player stood
C16_Witness ==
    /\ inv.slots["melee_weapon"] = 2
    /\ \E i \in 1 .. Len(inv.items_on_ground) :
          inv.items_on_ground[i] = [id |-> 1, position |-> inv.player]
    /\ inv.slots["spell"] # NoItem


\* a room of the minimum size, one tile inside the border, does not fit
TooSmallForRoom(w, h) ==
    \/ w - MinRoomSize(w) - 1 < 1
    \/ h - MinRoomSize(w) - 1 < 1

\* C17: a level too small to hold a room of the minimum size ends generation
\* with zero rooms and the fallback spawn position (2 * tile_size,
\* 2 * tile_size).
C17_TooSmallLevelHasNoRooms ==
    (gen.pc = "done" /\ TooSmallForRoom(gen.width, gen.height)) =>
        /\ gen.rooms = <<>>
        /\ gen.spawn_position = <<2 * tile_size, 2 * tile_size>>


(***************************************************************************)
(* Experience and levels (player.py).                                      *)
(***************************************************************************)
RECURSIVE ThresholdAfter(_, _)
\* xp_to_next_level after k level-ups that start from threshold t:
\* floor(1.5 * t), k times over
ThresholdAfter(t, k) == IF k = 0 THEN t ELSE ThresholdAfter((t * 3) \div 2, k - 1)

RECURSIVE ThresholdsCrossed(_, _)
\* XP consumed by k level-ups that start from threshold t
ThresholdsCrossed(t, k) ==
    IF k = 0 THEN 0 ELSE t + ThresholdsCrossed((t * 3) \div 2, k - 1)

\* C19: Player.gain_xp(n), n >= 0, adds exactly n to total_xp and ends with
\* 0 <= xp < xp_to_next_level.  When xp + n is below xp_to_next_level, xp
\* grows by exactly n and level is unchanged; otherwise level grows by one
\* per threshold crossed (the XP consumed is the sum of the thresholds of the
\* levels gained), and each level gained adds 20 to max_health and to
\* current_health and replaces xp_to_next_level by floor(1.5 times it).
C19_GainXpLevelsPerThreshold ==
    [][\A n \in XpInputs \cup DemoXpInputs :
          (hlast' \in {"xp", "level_up"} /\ hplayer' = GainXp(hplayer, n))
          => LET k == hplayer'.level - hplayer.level
             IN  /\ hplayer'.total_xp = hplayer.total_xp + n
                 /\ 0 <= hplayer'.xp /\ hplayer'.xp < hplayer'.xp_to_next_level
                 /\ (hplayer.xp + n < hplayer.xp_to_next_level)
                       => (hplayer'.xp = hplayer.xp + n /\ k = 0)
                 /\ (hplayer.xp + n >= hplayer.xp_to_next_level) => k >= 1
                 /\ k >= 0
                 /\ hplayer.xp + n
                       = hplayer'.xp + ThresholdsCrossed(hplayer.xp_to_next_level, k)
                 /\ hplayer'.max_health = hplayer.max_health + 20 * k
                 /\ hplayer'.current_health = hplayer.current_health + 20 * k
                 /\ hplayer'.xp_to_next_level
                       = ThresholdAfter(hplayer.xp_to_next_level, k)]_vars

\* a wounded level-1 player has gained 200 XP at once: level 2 with 100 XP
\* kept, 120 max_health, a threshold of 150
C19_Witness ==
    /\ hlast = "level_up"
    /\ hplayer.total_xp = 200
    /\ hplayer.level = 2 /\ hplayer.xp = 100 /\ hplayer.xp_to_next_level = 150
    /\ hplayer.max_health = 120 /\ hplayer.current_health < 120


(***************************************************************************)
(* SpecKb: one Enemy object with its knockback state (enemy.py).  The      *)
(* enemy record of SpecAI is extended by knocked_back, knockback_timer     *)
(* (tenths of a second), knockback_immunity and knockback_velocity (px/s). *)
(* Enemy.apply_knockback is taken as it is written, called on a living     *)
(* enemy by whoever holds the object.                                      *)
(***************************************************************************)
KnockbackDuration == 12
KnockbackFastPhase == 8

\* Enemy.__init__ with the knockback fields
NewKbEnemy(t, born) ==
    [f \in DOMAIN NewEnemy(t, born) \cup
           {"knocked_back", "knockback_timer", "knockback_immunity",
            "knockback_velocity"} |->
        CASE f = "knocked_back" -> FALSE
          [] f = "knockback_timer" -> 0
          [] f = "knockback_immunity" -> FALSE
          [] f = "knockback_velocity" -> <<0, 0>>
          [] OTHER -> IF f = "pc" THEN "kb" ELSE NewEnemy(t, born)[f]]

\* Enemy.apply_knockback; vel is (cos(angle) * force, sin(angle) * force)
EnemyApplyKnockback(e, vel) ==
    IF e.knocked_back \/ e.knockback_immunity THEN e
    ELSE [e EXCEPT !.knocked_back = TRUE,
                   !.knockback_timer = KnockbackDuration,
                   !.knockback_immunity = TRUE,
                   !.state = "knocked_back",
                   !.knockback_velocity = vel]

\* Enemy.update_knockback (knockback_velocity *= 0.85, in whole px/s)
UpdateKnockback(e, dt) ==
    LET t == e.knockback_timer - dt
        e1 == IF t > KnockbackFastPhase
              THEN [e EXCEPT !.knockback_timer = t,
                             !.knockback_velocity =
                                <<(@[1] * 85) \div 100, (@[2] * 85) \div 100>>]
              ELSE [e EXCEPT !.knockback_timer = t]
    IN  IF t <= 0
        THEN [e1 EXCEPT !.knocked_back = FALSE, !.state = "idle"]
        ELSE e1

\* Enemy.update, the state knocked_back included
EnemyUpdateKb(e, dt, can_see_player, player_distance, memory_distance, mco) ==
    IF ~EnemyIsAlive(e) THEN [e EXCEPT !.frame = 1 - @]
    ELSE
    LET e0 == [e EXCEPT !.frame = 1 - @,
                        !.since_raycast = Saturate(@ + dt, RaycastInterval),
                        !.since_seen = Saturate(@ + dt, GiveUpTime + 1),
                        !.mind_left = Max(0, @ - dt)]
        e1 == IF e0.mind_controlled /\ e0.mind_left = 0
              THEN [e0 EXCEPT !.mind_controlled = FALSE] ELSE e0
        e2 == IF ~e1.mind_controlled
              THEN UpdateAiState(e1, can_see_player, player_distance)
              ELSE [e1 EXCEPT !.state = mco]
        e3 == IF e2.state = "chasing"
              THEN StrategicChaseBehavior(e2,
                       TargetDistance(e2, player_distance, memory_distance))
              ELSE e2
    IN  IF e2.state = "knocked_back"
        THEN UpdateKnockback(e2, dt)        \* return: skip other updates
        ELSE [e3 EXCEPT !.knockback_immunity = @ /\ e3.knocked_back]

KbTypes == {"basic", "ranged"}
KbDtInputs == {4, 12}
KbDistInputs == {30, 120}
KbVelocities == {<<200, 0>>, <<0, 120>>}
KbDamageInputs == {50}

InitKb ==
    /\ \E t \in KbTypes : kb = NewKbEnemy(t, 60)
    /\ proj = IdleLater /\ mind = IdleLater /\ ab = IdleLater /\ FourthIdle
    /\ ai = IdleLater /\ ric = IdleLater /\ melee = IdleLater
    /\ vis = IdleLater /\ inv = IdleLater
    /\ GameInit /\ BossIdle /\ HealthIdle /\ MoveIdle /\ GenIdle

notKb == <<gameVars, bossVars, healthVars, moveVars, genVars,
           aiVars, ricVars, meleeVars, visVars, invVars, proj, mind, ab,
           fourthVars>>

KbUpdate ==
    /\ \E dt \in KbDtInputs, can_see_player \in BOOLEAN, d \in KbDistInputs,
          m \in MemoryInputs, mco \in McOutcomes :
          kb' = EnemyUpdateKb(kb, dt, can_see_player, d, m, mco)
    /\ UNCHANGED notKb

KbApplyKnockback ==
    /\ EnemyIsAlive(kb)
    /\ \E vel \in KbVelocities : kb' = EnemyApplyKnockback(kb, vel)
    /\ UNCHANGED notKb

KbTakeDamage ==
    /\ \E amount \in KbDamageInputs : kb' = EnemyTakeDamage(kb, amount)
    /\ UNCHANGED notKb

KbMindControl ==
    /\ EnemyIsAlive(kb)
    /\ kb' = [kb EXCEPT !.mind_controlled = TRUE, !.mind_left = MindControlTime]
    /\ UNCHANGED notKb

NextKb == KbUpdate \/ KbApplyKnockback \/ KbTakeDamage \/ KbMindControl

SpecKb == InitKb /\ [][NextKb]_vars

\* C21: from the moment apply_knockback takes effect until the knockback
\* timer expires, a living enemy is in state knocked_back after every tick
\* (it does not switch to chasing, attacking or mind-controlled behaviour,
\* seen by the player or not), and a further apply_knockback during that
\* time changes nothing.
C21_KnockedBackUntilExpiry ==
    /\ (kb.pc = "kb" /\ EnemyIsAlive(kb) /\ kb.knocked_back)
          => kb.state = "knocked_back"
    /\ (kb.pc = "kb" /\ kb.knocked_back)
          => \A vel \in KbVelocities : EnemyApplyKnockback(kb, vel) = kb

\* Game.run calls Game.update, which updates every enemy, once per frame
SpecKbFair == SpecKb /\ WF_vars(KbUpdate)

\* C22: every knockback episode of a living enemy ends: under fair ticking
\* the enemy is eventually no longer knocked back, idle and free of
\* knockback immunity (or it has died).
C22_KnockbackEnds ==
    (kb.pc = "kb" /\ kb.knocked_back /\ EnemyIsAlive(kb))
        ~> \/ ~kb.knocked_back /\ ~kb.knockback_immunity
           \/ ~EnemyIsAlive(kb)


(***************************************************************************)
(* CombatSystem.apply_knockback on the level of SpecMove (combat.py).      *)
(***************************************************************************)
\* the tiles under the straight path from (x0, y0) to (x1, y1), for a path
\* along one axis
TilesOnPath(x0, y0, x1, y1) ==
    {<<tx, ty>> \in (Min(x0, x1) \div tile_size .. Max(x0, x1) \div tile_size)
                    \X (Min(y0, y1) \div tile_size .. Max(y0, y1) \div tile_size) : TRUE}

\* the entity stands inside the grid and its circle overlaps no wall tile
StandsFree(m) ==
    /\ 0 <= m.x /\ m.x < MoveLevelWidth * tile_size
    /\ 0 <= m.y /\ m.y < MoveLevelHeight * tile_size
    /\ ~CheckWallCollision(MoveFloor, MoveLevelWidth, MoveLevelHeight, m.x, m.y, m.radius)

\* C25: apply_knockback moves the target only along the attack direction, by
\* the full knockback distance or by the first of 50%, 25%, 10% of it that
\* is free, or not at all; afterwards the target's circle overlaps no wall
\* tile, the target is inside the grid, and no wall tile lies between its
\* old and its new position.
C25_KnockbackStaysClearOfWalls ==
    [][\A k \in KnockbackInputs :
          (/\ mover.kind = "enemy" /\ StandsFree(mover)
           /\ mlast' = "knockback"
           /\ mover' = ApplyKnockback(MoveFloor, MoveLevelWidth, MoveLevelHeight,
                                      mover, k[1], k[2]))
          => /\ \E f \in {0, 10, 25, 50, 100} :
                   /\ mover'.x = mover.x + (k[1] * f) \div 100
                   /\ mover'.y = mover.y + (k[2] * f) \div 100
             /\ ~CheckWallCollision(MoveFloor, MoveLevelWidth, MoveLevelHeight,
                                    mover'.x, mover'.y, mover'.radius)
             /\ 0 <= mover'.x /\ mover'.x < MoveLevelWidth * tile_size
             /\ 0 <= mover'.y /\ mover'.y < MoveLevelHeight * tile_size
             /\ \A t \in TilesOnPath(mover.x, mover.y, mover'.x, mover'.y) :
                   ~IsWall(MoveFloor, t[1], t[2])]_vars


(***************************************************************************)
(* The bounce of a RicochetProjectile (new_enemy_types.py), in SpecRic.    *)
(***************************************************************************)
\* the move along x alone, or along y alone, ends in a wall
BlockedHorizontally(p, dt) == IsWallAt(MovedTo(p, dt)[1], p.y)
BlockedVertically(p, dt) == IsWallAt(p.x, MovedTo(p, dt)[2])

\* C26: when a projectile with bounces remaining contacts a wall, the bounce
\* reverses exactly the velocity component of the blocked axis (blocked
\* horizontally: x only; blocked vertically: y only; both or neither, a
\* corner: both) and leaves the projectile at its last valid point, a
\* position that is not inside a wall.
C26_BounceFlipsBlockedAxis ==
    [][\A dt \in RicDtInputs :
          (/\ ric.active /\ ric.ricochets_left > 0
           /\ ~IsWallAt(ric.x, ric.y)
           /\ WallContact(ric, dt)
           /\ ric' = ProjectileStep(ric, dt))
          => LET h == BlockedHorizontally(ric, dt)
                 v == BlockedVertically(ric, dt)
                 flip_x == (h /\ ~v) \/ (h = v)
                 flip_y == (v /\ ~h) \/ (h = v)
             IN  /\ ric'.direction[1]
                       = (IF flip_x THEN -ric.direction[1] ELSE ric.direction[1])
                 /\ ric'.direction[2]
                       = (IF flip_y THEN -ric.direction[2] ELSE ric.direction[2])
                 /\ ric'.x = ric.x /\ ric'.y = ric.y
                 /\ ~IsWallAt(ric'.x, ric'.y)]_vars


(***************************************************************************)
(* SpecProj: one projectile in flight, fired by the player, by a ranged    *)
(* enemy or by the boss (fire_spin), on a level of two rooms joined by a   *)
(* corridor.  Times are tenths of a second, speeds pixels per tenth.       *)
(***************************************************************************)
ProjLevelWidth == 42
ProjLevelHeight == 5
ProjRoomWest == <<1, 1, 3, 3>>
ProjRoomEast == <<38, 1, 3, 3>>
\* Level.generate_level: carve_room for both rooms, then connect_rooms
ProjFloor ==
    ConnectPair(CarveRoom(CarveRoom({}, ProjRoomWest, ProjLevelWidth, ProjLevelHeight),
                          ProjRoomEast, ProjLevelWidth, ProjLevelHeight),
                ProjRoomWest, ProjRoomEast, TRUE, ProjLevelWidth, ProjLevelHeight)

ProjectileLifetime == 30
PlayerProjectileSpeed == 40
EnemyProjectileSpeed == 30
BossProjectileSpeed == 15
PlayerProjectileRadius == 3
BossProjectileReach == 8

\* Projectile.__init__ / the dict built by Boss.fire_spin; dir is a unit
\* vector along one axis
NewProjectile(kind, pos, dir, speed, damage) ==
    [pc |-> "proj", kind |-> kind, x |-> pos[1], y |-> pos[2],
     vx |-> dir[1] * speed, vy |-> dir[2] * speed,
     radius |-> IF kind = "boss" THEN BossProjectileReach ELSE PlayerProjectileRadius,
     damage |-> damage, age |-> 0,
     active |-> TRUE,            \* still in its list of projectiles
     cause |-> "none",           \* why the last tick removed it
     player |-> [x |-> 48, y |-> 112, hp |-> PlayerMaxHealth],
     enemy |-> [x |-> 200, y |-> 80, hp |-> 50]]

\* Projectile.update: the advance and the ageing
Advance(p, dt) == [p EXCEPT !.x = @ + p.vx * dt, !.y = @ + p.vy * dt, !.age = @ + dt]

\* Projectile.check_collision with a circle at (tx, ty)
CheckCollision(p, tx, ty, reach) ==
    (p.x - tx) * (p.x - tx) + (p.y - ty) * (p.y - ty) <= reach * reach

ProjWallContact(p) ==
    CheckWallCollision(ProjFloor, ProjLevelWidth, ProjLevelHeight, p.x, p.y, p.radius)

\* CombatSystem.update_projectiles for one projectile (a level without boss)
UpdatePlayerProjectile(p, dt) ==
    LET q == Advance(p, dt)
    IN  IF ~(q.age < ProjectileLifetime)
        THEN [q EXCEPT !.active = FALSE, !.cause = "lifetime"]
        ELSE IF ProjWallContact(q)
        THEN [q EXCEPT !.active = FALSE, !.cause = "wall"]
        ELSE IF IsAlive(q.enemy.hp)
                /\ CheckCollision(q, q.enemy.x, q.enemy.y, q.radius + EnemyRadius)
        THEN [q EXCEPT !.active = FALSE, !.cause = "hit",
                       !.enemy.hp = TakeDamage(@, q.damage)]
        ELSE [q EXCEPT !.cause = "none"]

\* Enemy.update: the loop over self.projectiles, for one projectile
UpdateEnemyProjectile(p, dt, immune) ==
    LET q == Advance(p, dt)
    IN  IF q.age >= ProjectileLifetime
        THEN [q EXCEPT !.active = FALSE, !.cause = "lifetime"]
        ELSE IF CheckCollision(q, q.player.x, q.player.y, q.radius + PlayerRadius)
        THEN [q EXCEPT !.active = FALSE, !.cause = "hit",
                       !.player.hp = IF immune THEN @ ELSE TakeDamage(@, q.damage)]
        ELSE [q EXCEPT !.cause = "none"]

\* Level.update_boss_projectiles for one projectile that is not homing
UpdateBossProjectile(p, dt, immune) ==
    IF ProjectileLifetime - (p.age + dt) <= 0
    THEN [p EXCEPT !.age = @ + dt, !.active = FALSE, !.cause = "lifetime"]
    ELSE LET q == Advance(p, dt)
         IN  IF CheckCollision(q, q.player.x, q.player.y, PlayerRadius + BossProjectileReach)
             THEN [q EXCEPT !.active = FALSE, !.cause = "hit",
                            !.player.hp = IF immune THEN @ ELSE TakeDamage(@, q.damage)]
             ELSE [q EXCEPT !.cause = "none"]

ProjDtInputs == {1, 2}
ProjDirs == {<<1, 0>>, <<0, 1>>, <<0, -1>>}
\* where the enemy stands that the player shoots at: near the west room, and
\* 1200 px down the corridor, the distance a projectile covers in its lifetime
ProjEnemySpots == {<<200, 80>>, <<1280, 80>>}
ProjPlayerSpots == {<<48, 112>>, <<80, 80>>}

InitProj ==
    /\ \/ \E dir \in ProjDirs, e \in ProjEnemySpots :
             \* attempt_ranged_attack towards the mouse: damage // 2
             proj = [NewProjectile("player", <<80, 80>>, dir, PlayerProjectileSpeed,
                                   PlayerMaxHealth \div 8)
                        EXCEPT !.enemy.x = e[1], !.enemy.y = e[2]]
       \* attack_player of a ranged enemy: aimed at the player, who stands
       \* straight below the enemy
       \/ proj = NewProjectile("enemy", <<48, 48>>, <<0, 1>>, EnemyProjectileSpeed, 10)
       \* fire_spin: projectiles in all directions around the boss
       \/ \E dir \in ProjDirs :
             proj = NewProjectile("boss", <<48, 48>>, dir, BossProjectileSpeed, 30)
    /\ kb = IdleLater /\ mind = IdleLater /\ ab = IdleLater /\ FourthIdle
    /\ ai = IdleLater /\ ric = IdleLater /\ melee = IdleLater
    /\ vis = IdleLater /\ inv = IdleLater
    /\ GameInit /\ BossIdle /\ HealthIdle /\ MoveIdle /\ GenIdle

notProj == <<gameVars, bossVars, healthVars, moveVars, genVars,
             aiVars, ricVars, meleeVars, visVars, invVars, kb, mind, ab,
           fourthVars>>

ProjPlayerTick ==
    /\ proj.active /\ proj.kind = "player"
    /\ \E dt \in ProjDtInputs : proj' = UpdatePlayerProjectile(proj, dt)
    /\ UNCHANGED notProj

ProjEnemyTick ==
    /\ proj.active /\ proj.kind = "enemy"
    /\ \E dt \in ProjDtInputs, immune \in BOOLEAN :
          proj' = UpdateEnemyProjectile(proj, dt, immune)
    /\ UNCHANGED notProj

ProjBossTick ==
    /\ proj.active /\ proj.kind = "boss"
    /\ \E dt \in ProjDtInputs, immune \in BOOLEAN :
          proj' = UpdateBossProjectile(proj, dt, immune)
    /\ UNCHANGED notProj

\* the player walks on between two ticks
ProjPlayerMove ==
    /\ proj.active
    /\ \E s \in ProjPlayerSpots :
          /\ <<proj.player.x, proj.player.y>> # s
          /\ proj' = [proj EXCEPT !.player.x = s[1], !.player.y = s[2]]
    /\ UNCHANGED notProj

NextProj == ProjPlayerTick \/ ProjEnemyTick \/ ProjBossTick \/ ProjPlayerMove

SpecProj == InitProj /\ [][NextProj]_vars

\* C23: in a tick a player projectile is removed for exactly one cause and
\* applies damage at most once; after the advance the causes are tested in
\* the order wall contact, enemy hit, lifetime expiry: a projectile that
\* touches a wall damages nothing, and one that reaches a living enemy in
\* the tick in which its lifetime runs out still applies its damage.
C23_RemovalPriority ==
    [][\A dt \in ProjDtInputs :
          (/\ proj.active /\ proj.kind = "player"
           /\ proj' = UpdatePlayerProjectile(proj, dt))
          => LET q == Advance(proj, dt)
                 wall == ProjWallContact(q)
                 reach == IsAlive(q.enemy.hp)
                          /\ CheckCollision(q, q.enemy.x, q.enemy.y, q.radius + EnemyRadius)
                 expired == q.age >= ProjectileLifetime
             IN  /\ proj'.cause = (IF wall THEN "wall" ELSE IF reach THEN "hit"
                                   ELSE IF expired THEN "lifetime" ELSE "none")
                 /\ proj'.active = (proj'.cause = "none")
                 /\ proj'.enemy.hp = (IF ~wall /\ reach
                                      THEN TakeDamage(proj.enemy.hp, proj.damage)
                                      ELSE proj.enemy.hp)]_vars

\* C24: a projectile of the player, of a ranged enemy or of the boss that
\* overlaps a wall tile after being advanced in a tick is removed in that
\* tick, so no projectile in flight overlaps a wall.
C24_NoProjectileInsideWall ==
    (proj.pc = "proj" /\ proj.active) => ~ProjWallContact(proj)


(***************************************************************************)
(* SpecMind: one Enemy object e that the Turn Coat spell can mind control, *)
(* among two other enemies of level.enemies (a level without boss), with   *)
(* the player.  The enemy record of SpecAI is extended by the mind-control *)
(* target, the attack cooldown, the velocity and the enemy's projectile.   *)
(* Positions are kept as the distances the code computes from them; the    *)
(* velocity is kept as the point it is directed to.  Updates are followed  *)
(* 5 s apart, so the player's damage immunity of 0.5 s after a hit by this *)
(* enemy is over at every update.                                          *)
(***************************************************************************)
OtherIds == {1, 2}
NoTarget == 0

\* setup_stats / setup_weapon: attack_speed / speed_multiplier, in tenths
\* (ranged: 2.0 / 1.5 = 1.33 s, basic: 1.5 / 1.0)
AttackCooldown(t) == CASE t = "ranged" -> 13 [] OTHER -> 15
\* setup_stats at player level 1
TypeDamage(t) == CASE t = "ranged" -> 20 [] OTHER -> 15

NewMcEnemy(t) ==
    [f \in DOMAIN NewEnemy(t, 60) \cup
           {"mind_control_target", "target_distance", "since_attack", "velocity",
            "shots", "player_hp", "others"} |->
        CASE f = "mind_control_target" -> NoTarget
          [] f = "target_distance" -> 0    \* local of mind_control_behavior
          [] f = "since_attack" -> AttackCooldown(t)   \* last_attack_time = 0
          [] f = "velocity" -> "zero"
          [] f = "shots" -> 0                          \* len(self.projectiles)
          [] f = "player_hp" -> PlayerMaxHealth
          [] f = "others" -> [i \in OtherIds |->
                                 [current_health |-> TypeHealth("fast"),
                                  mind_controlled |-> FALSE]]
          [] OTHER -> IF f = "pc" THEN "mind" ELSE NewEnemy(t, 60)[f]]

OtherIsAlive(e, i) == e.others[i].current_health > 0

\* the loop of mind_control_behavior: the nearest living enemy that is not
\* mind controlled, the first of the list on equal distances
NearestOther(e, td) ==
    LET ok == {i \in OtherIds : OtherIsAlive(e, i) /\ ~e.others[i].mind_controlled}
    IN  IF ok = {} THEN NoTarget
        ELSE CHOOSE i \in ok :
                \A j \in ok : td[i] < td[j] \/ (td[i] = td[j] /\ i <= j)

\* the test that opens mind_control_behavior
NeedsNewTarget(e) ==
    \/ e.mind_control_target = NoTarget
    \/ ~OtherIsAlive(e, e.mind_control_target)
    \/ e.others[e.mind_control_target].mind_controlled

\* Enemy.mind_control_behavior; td[i] is distance_to_enemy of enemy i
MindControlBehavior(e, td, at_spawn) ==
    LET e1 == IF NeedsNewTarget(e)
              THEN [e EXCEPT !.mind_control_target = NearestOther(e, td)]
              ELSE e
        t == e1.mind_control_target
    IN  IF t # NoTarget
        THEN IF td[t] <= e1.weapon_range
             THEN IF e1.since_attack >= AttackCooldown(e1.enemy_type)
                  THEN [e1 EXCEPT !.target_distance = td[t],
                                  !.state = "attacking", !.since_attack = 0,
                                  !.others[t].current_health = TakeDamage(@, TypeDamage(e1.enemy_type))]
                  ELSE [e1 EXCEPT !.target_distance = td[t], !.state = "attacking"]
             ELSE [e1 EXCEPT !.target_distance = td[t],
                             !.state = "chasing", !.velocity = "to_target"]
        ELSE IF at_spawn
             THEN [e1 EXCEPT !.state = "idle", !.velocity = "zero"]
             ELSE [e1 EXCEPT !.velocity = "to_spawn"]

\* Enemy.attack_player: a ranged enemy appends a Projectile, the others hit
\* the player when within weapon_range
AttackPlayer(e, player_distance) ==
    IF e.enemy_type = "ranged"
    THEN [e EXCEPT !.shots = @ + 1]
    ELSE IF player_distance <= e.weapon_range
    THEN [e EXCEPT !.player_hp = TakeDamage(@, TypeDamage(e.enemy_type))]
    ELSE e

\* Enemy.attack_behavior
AttackBehavior(e, player_distance) ==
    LET e1 == [e EXCEPT !.velocity = "zero"]
    IN  IF e1.since_attack >= AttackCooldown(e1.enemy_type)
        THEN [AttackPlayer(e1, player_distance) EXCEPT !.since_attack = 0]
        ELSE e1

\* Enemy.kiting_behavior
KitingBehavior(e, player_distance) ==
    IF player_distance * 10 < e.weapon_range * 8
    THEN [e EXCEPT !.velocity = "from_player"]
    ELSE IF player_distance > e.weapon_range
    THEN [e EXCEPT !.velocity = "to_player"]
    ELSE IF e.since_attack >= AttackCooldown(e.enemy_type)
    THEN [AttackPlayer([e EXCEPT !.velocity = "slowed"], player_distance)
             EXCEPT !.since_attack = 0]
    ELSE [e EXCEPT !.velocity = "slowed"]

\* Enemy.strategic_chase_behavior with Enemy.chase_behavior, whose target is
\* last_seen_player_pos or the player's position
StrategicChaseBehaviorMc(e, target_distance) ==
    IF e.ai_strategy = "kiting" THEN [e EXCEPT !.state = "kiting"]
    ELSE IF e.ai_strategy = "flanking" THEN [e EXCEPT !.state = "flanking"]
    ELSE IF target_distance * 10 <= e.weapon_range * 13
    THEN [e EXCEPT !.state = "attacking"]
    ELSE [e EXCEPT !.velocity = "to_player"]

\* the loop of Enemy.update over self.projectiles, for the one projectile
\* in flight: it flies on, runs out of lifetime or reaches the player
UpdateOwnProjectile(e, shot) ==
    IF e.shots = 0 \/ shot = "fly" THEN e
    ELSE IF shot = "expire" THEN [e EXCEPT !.shots = @ - 1]
    ELSE [e EXCEPT !.shots = @ - 1,
                   !.player_hp = TakeDamage(@, TypeDamage(e.enemy_type))]

\* Enemy.update with its projectiles, mind control and attacks
EnemyUpdateMc(e, in) ==
    IF ~EnemyIsAlive(e) THEN e
    ELSE
    LET e0 == [e EXCEPT !.target_distance = 0,
                        !.since_raycast = Saturate(@ + in.dt, RaycastInterval),
                        !.since_seen = Saturate(@ + in.dt, GiveUpTime + 1),
                        !.since_attack = Saturate(@ + in.dt, AttackCooldown(e.enemy_type)),
                        !.mind_left = Max(0, @ - in.dt)]
        e1 == IF e0.mind_controlled /\ e0.mind_left = 0
              THEN [e0 EXCEPT !.mind_controlled = FALSE] ELSE e0
        e2 == UpdateOwnProjectile(e1, in.shot)
        e3 == IF ~e2.mind_controlled
              THEN UpdateAiState(e2, in.can_see_player, in.player_distance)
              ELSE MindControlBehavior([e2 EXCEPT !.state = "mind_controlled"],
                                       in.td, in.at_spawn)
    IN  CASE e3.state = "idle" -> [e3 EXCEPT !.velocity = "roam"]
          [] e3.state = "chasing" ->
                StrategicChaseBehaviorMc(e3,
                    TargetDistance(e3, in.player_distance, in.memory_distance))
          [] e3.state = "attacking" ->
                AttackBehavior(e3, in.player_distance)
          [] e3.state = "kiting" ->
                KitingBehavior(e3, in.player_distance)
          [] OTHER -> e3

McTypes == {"basic", "ranged"}
McDtInputs == {50}
McPlayerDistances == {30, 120}
McTargetDistances == {40, 150}
McMemoryDistances == {200}
ShotOutcomes == {"fly", "hit", "expire"}
McInputs ==
    [dt : McDtInputs, can_see_player : BOOLEAN, player_distance : McPlayerDistances,
     memory_distance : McMemoryDistances, td : [OtherIds -> McTargetDistances],
     at_spawn : BOOLEAN, shot : ShotOutcomes]
\* projectiles of one enemy followed at the same time
MaxShots == 1

InitMind ==
    /\ \E t \in McTypes : mind = NewMcEnemy(t)
    /\ kb = IdleLater /\ proj = IdleLater /\ ab = IdleLater /\ FourthIdle
    /\ ai = IdleLater /\ ric = IdleLater /\ melee = IdleLater
    /\ vis = IdleLater /\ inv = IdleLater
    /\ GameInit /\ BossIdle /\ HealthIdle /\ MoveIdle /\ GenIdle

notMind == <<gameVars, bossVars, healthVars, moveVars, genVars,
             aiVars, ricVars, meleeVars, visVars, invVars, kb, proj, ab,
           fourthVars>>

MindUpdate ==
    /\ \E in \in McInputs :
          LET e == EnemyUpdateMc(mind, in)
          IN  e.shots <= MaxShots /\ mind' = e
    /\ UNCHANGED notMind

\* CombatSystem.update_projectiles: a Turn Coat projectile hits the enemy
MindControlSelf ==
    /\ EnemyIsAlive(mind)
    /\ mind' = [mind EXCEPT !.mind_controlled = TRUE, !.mind_left = MindControlTime]
    /\ UNCHANGED notMind

\* ... or hits one of the other enemies
MindControlOther ==
    /\ \E i \in OtherIds :
          /\ OtherIsAlive(mind, i)
          /\ mind' = [mind EXCEPT !.others[i].mind_controlled = TRUE]
    /\ UNCHANGED notMind

\* the player kills one of the other enemies
MindOtherDies ==
    /\ \E i \in OtherIds :
          /\ OtherIsAlive(mind, i)
          /\ mind' = [mind EXCEPT !.others[i].current_health = 0]
    /\ UNCHANGED notMind

NextMind == MindUpdate \/ MindControlSelf \/ MindControlOther \/ MindOtherDies

SpecMind == InitMind /\ [][NextMind]_vars


\* C27: a mind-controlled enemy keeps its mind_control_target for as long
\* as that target is alive and the mind control lasts; a new target is
\* selected only when it has none or its target has died.
C27_TargetKeptUntilDead ==
    [][(/\ mind.mind_controlled /\ mind'.mind_controlled
        /\ mind.mind_control_target # NoTarget
        /\ OtherIsAlive(mind, mind.mind_control_target))
       => mind'.mind_control_target = mind.mind_control_target]_vars

\* C28: in every update in which a mind-controlled enemy has a living target
\* out of its weapon range, the velocity it then moves with is directed
\* toward that target, for every ai_strategy.
C28_MovesTowardTarget ==
    (/\ mind.pc = "mind" /\ mind.mind_controlled
     /\ mind.target_distance > mind.weapon_range)
        => mind.velocity = "to_target"

\* C29: while the enemy is mind controlled the player's health is not
\* reduced by it, neither by a melee attack nor by one of its projectiles.
C29_PlayerSafeFromControlled ==
    [][(mind.mind_controlled /\ mind'.mind_controlled)
          => mind'.player_hp = mind.player_hp]_vars


(***************************************************************************)
(* SpecAbility: the special abilities of one Boss (game_src/boss.py).      *)
(* Times are in 1/10000 s like the cooldowns of NewBoss; now is            *)
(* pygame.time.get_ticks() / 1000.0 as Boss.update reads it.  Of an        *)
(* executed ability the model keeps its name (executed): the projectiles,  *)
(* area effects and minions it creates are not followed here, nor is the   *)
(* part of the tick done by Enemy.update (SpecAI, SpecMind).               *)
(***************************************************************************)
\* Boss.get_boss_type
GetBossType(lvl) ==
    IF lvl = 10 THEN "shadow_lord"
    ELSE IF lvl % 3 = 0
         THEN <<"flame_berserker", "ice_mage", "lightning_striker">>[((lvl \div 3 - 1) % 3) + 1]
         ELSE "elite_guardian"

\* Boss.setup_boss_abilities: the names ...
AbilityNames(boss_type) ==
    CASE boss_type = "flame_berserker" -> {"fire_spin", "flame_charge"}
      [] boss_type = "ice_mage" -> {"ice_shard", "frost_nova"}
      [] boss_type = "lightning_striker" -> {"lightning_bolt", "chain_lightning"}
      [] boss_type = "shadow_lord" -> {"shadow_bolt", "dark_storm", "summon_minions"}
      [] OTHER -> {}

\* ... and the cooldowns
AbilityCooldown(name) ==
    CASE name = "fire_spin" -> 40000
      [] name = "flame_charge" -> 60000
      [] name = "ice_shard" -> 25000
      [] name = "frost_nova" -> 80000
      [] name = "lightning_bolt" -> 30000
      [] name = "chain_lightning" -> 70000
      [] name = "shadow_bolt" -> 20000
      [] name = "dark_storm" -> 100000
      [] name = "summon_minions" -> 150000

\* Boss.__init__ with setup_boss_abilities: every last_used is 0.0
NewAbBoss(lvl, start) ==
    [f \in DOMAIN NewBoss(lvl) \cup
           {"pc", "boss_type", "abilities", "last_special_attack", "now",
            "can_see_player", "executed"} |->
        CASE f = "pc" -> "ab"
          [] f = "boss_type" -> GetBossType(lvl)
          [] f = "abilities" -> [n \in AbilityNames(GetBossType(lvl)) |-> 0]
          [] f = "last_special_attack" -> 0
          [] f = "now" -> start
          [] f = "can_see_player" -> FALSE
          [] f = "executed" -> <<>>
          [] OTHER -> NewBoss(lvl)[f]]

\* the cooldown test every ability method starts with
AbilityReady(b, name, current_time) ==
    current_time - b.abilities[name] >= AbilityCooldown(name)

\* one ability method without its cooldown test
ExecuteAbility(b, name, current_time) ==
    [b EXCEPT !.abilities[name] = current_time,
              !.last_special_attack = current_time,
              !.executed = Append(@, name)]

\* an ability method that does not look at its own cooldown
UseAbilityNoCooldown(b, name, current_time) ==
    ExecuteAbility(b, name, current_time)

\* Boss.flame_charge, fire_spin, ice_shard, ...: nothing unless the ability
\* is off its own cooldown
UseAbility(b, name, current_time) ==
    IF AbilityReady(b, name, current_time)
    THEN ExecuteAbility(b, name, current_time)
    ELSE b

\* Boss.use_special_ability: the ability the archetype's rule picks
PickAbility(b, player_distance, current_time) ==
    CASE b.boss_type = "flame_berserker" ->
            IF player_distance <= 80 THEN "flame_charge" ELSE "fire_spin"
      [] b.boss_type = "ice_mage" ->
            IF player_distance <= 120 THEN "frost_nova" ELSE "ice_shard"
      [] b.boss_type = "lightning_striker" ->
            IF b.enraged THEN "chain_lightning" ELSE "lightning_bolt"
      [] b.boss_type = "shadow_lord" ->
            IF player_distance <= 100 THEN "dark_storm"
            ELSE IF current_time - b.abilities["summon_minions"] >= 150000
                 THEN "summon_minions"
                 ELSE "shadow_bolt"
      [] OTHER -> "none"

\* Boss.use_special_ability
UseSpecialAbility(b, player_distance, current_time) ==
    LET name == PickAbility(b, player_distance, current_time)
    IN  IF name = "none" THEN b ELSE UseAbility(b, name, current_time)

\* Boss.update at time current_time
BossUpdateAbilities(b, current_time, can_see_player, player_distance) ==
    LET b0 == [b EXCEPT !.now = current_time,
                        !.can_see_player = can_see_player,
                        !.executed = <<>>]
    IN  IF ~IsAlive(b0.current_health) THEN b0
        ELSE LET b1 == IF ShouldEnrage(b0) THEN Enrage(b0) ELSE b0
             IN  IF /\ can_see_player
                    /\ current_time - b1.last_special_attack >= b1.special_attack_cooldown
                 THEN UseSpecialAbility(b1, player_distance, current_time)
                 ELSE b1

\* one boss of every archetype
AbLevels == {1, 3, 6, 9, 10}
\* the clock when the boss is created
AbStartTimes == {0, 50000}
\* time between two updates that are looked at
AbDtInputs == {10000, 30000}
AbDistInputs == {60, 110, 200}
\* the clock stops here
MaxTime == 200000

InitAb ==
    /\ \E lvl \in AbLevels, start \in AbStartTimes : ab = NewAbBoss(lvl, start)
    /\ kb = IdleLater /\ proj = IdleLater /\ mind = IdleLater /\ FourthIdle
    /\ ai = IdleLater /\ ric = IdleLater /\ melee = IdleLater
    /\ vis = IdleLater /\ inv = IdleLater
    /\ GameInit /\ BossIdle /\ HealthIdle /\ MoveIdle /\ GenIdle

notAb == <<gameVars, bossVars, healthVars, moveVars, genVars,
           aiVars, ricVars, meleeVars, visVars, invVars, kb, proj, mind,
           fourthVars>>

AbUpdate ==
    /\ \E dt \in AbDtInputs, see \in BOOLEAN, d \in AbDistInputs :
          /\ ab.now + dt <= MaxTime
          /\ ab' = BossUpdateAbilities(ab, ab.now + dt, see, d)
    /\ UNCHANGED notAb

\* Enemy.take_damage on the boss: down to the enrage threshold, or dead
AbTakeDamage ==
    /\ IsAlive(ab.current_health)
    /\ \E h \in {0, (3 * ab.max_health) \div 10} :
          /\ h < ab.current_health
          /\ ab' = [ab EXCEPT !.current_health = h]
    /\ UNCHANGED notAb

NextAb == AbUpdate \/ AbTakeDamage

SpecAbility == InitAb /\ [][NextAb]_vars

\* some ability of the boss is off its own cooldown
SomeAbilityReady(b, current_time) ==
    \E n \in DOMAIN b.abilities : AbilityReady(b, n, current_time)

\* C30: in every update of a living boss that perceives the player, with the
\* shared special-attack cooldown elapsed and at least one ability off its
\* own cooldown, exactly one ready ability is executed, and its last_used
\* and last_special_attack become the current time.
C30_OneReadyAbilityExecuted ==
    [][(/\ ab.pc = "ab" /\ ab'.now # ab.now
        /\ IsAlive(ab.current_health)
        /\ ab'.can_see_player
        /\ ab'.now - ab.last_special_attack >= ab'.special_attack_cooldown
        /\ SomeAbilityReady(ab, ab'.now))
       => /\ Len(ab'.executed) = 1
          /\ AbilityReady(ab, ab'.executed[1], ab'.now)
          /\ ab'.abilities[ab'.executed[1]] = ab'.now
          /\ ab'.last_special_attack = ab'.now]_vars


\* C31: an ability is executed only in an update in which the boss perceives
\* the player, the shared special-attack cooldown has elapsed since the last
\* special attack and the ability's own cooldown has elapsed since its last
\* use; at most one ability is executed per update.
C31_AbilityOnlyWhenAllowed ==
    [][(ab.pc = "ab" /\ ab'.now # ab.now /\ ab'.executed # <<>>)
       => /\ Len(ab'.executed) = 1
          /\ ab'.executed[1] \in DOMAIN ab.abilities
          /\ ab'.can_see_player
          /\ IsAlive(ab.current_health)
          /\ ab'.now - ab.last_special_attack >= ab'.special_attack_cooldown
          /\ ab'.now - ab.abilities[ab'.executed[1]]
                >= AbilityCooldown(ab'.executed[1])]_vars

\* an enraged shadow lord that has used its shadow bolt and its dark storm
\* has just summoned its minions
C31_Witness ==
    /\ ab.pc = "ab" /\ ab.enraged
    /\ ab.executed = <<"summon_minions">>
    /\ ab.abilities["summon_minions"] = ab.now
    /\ ab.abilities["shadow_bolt"] > 0
    /\ ab.abilities["dark_storm"] > 0


(***************************************************************************)
(* The specifications below each drive one of haste, flank, hurt, minion   *)
(* and hold every other variable at its idle value.                        *)
(***************************************************************************)
OlderIdle ==
    /\ GameInit /\ BossIdle /\ HealthIdle /\ MoveIdle /\ GenIdle
    /\ ai = IdleLater /\ ric = IdleLater /\ melee = IdleLater
    /\ vis = IdleLater /\ inv = IdleLater
    /\ kb = IdleLater /\ proj = IdleLater /\ mind = IdleLater /\ ab = IdleLater

olderVars == <<gameVars, bossVars, healthVars, moveVars, genVars,
               aiVars, ricVars, meleeVars, visVars, invVars, kb, proj, mind, ab>>

(***************************************************************************)
(* SpecHaste: one DaggerHasteBoss (game_src/boss_dagger_haste.py) under    *)
(* its update, with the enrage of Boss.update.  Times in 1/10000 s.  The   *)
(* boss is built for level 10, the level at which the abilities of its     *)
(* boss_type "shadow_lord" exist; they change neither speed nor            *)
(* attack_cooldown and are followed in SpecAbility.                        *)
(***************************************************************************)
\* DaggerHasteBoss.__init__: haste_duration = 5.0, haste_cooldown = 15.0
HasteDuration == 50000
HasteCooldown == 150000
\* weapon_range = 45; haste activates within weapon_range * 2
HasteBossWeaponRange == 45

\* DaggerHasteBoss.__init__
NewDaggerHasteBoss(lvl) ==
    [f \in DOMAIN NewBoss(lvl) \cup
           {"pc", "haste_active", "last_haste_time", "original_speed",
            "original_attack_cooldown", "now"} |->
        CASE f = "pc" -> "haste"
          [] f = "haste_active" -> FALSE
          [] f = "last_haste_time" -> 0
          [] f = "original_speed" -> NewBoss(lvl).speed
          [] f = "original_attack_cooldown" -> NewBoss(lvl).attack_cooldown
          [] f = "now" -> 0
          [] f = "max_health" -> (NewBoss(lvl).max_health * 13) \div 10
          [] f = "current_health" -> (NewBoss(lvl).max_health * 13) \div 10
          [] OTHER -> NewBoss(lvl)[f]]

\* DaggerHasteBoss.activate_haste
ActivateHaste(b, current_time) ==
    [b EXCEPT !.haste_active = TRUE,
              !.last_haste_time = current_time,
              !.speed = b.original_speed * 2,
              !.attack_cooldown = b.original_attack_cooldown \div 2]

\* DaggerHasteBoss.end_haste
EndHaste(b) ==
    [b EXCEPT !.haste_active = FALSE,
              !.speed = b.original_speed,
              !.attack_cooldown = b.original_attack_cooldown]

\* DaggerHasteBoss.update, then Boss.update
DaggerHasteBossUpdate(b, current_time, can_see_player, distance) ==
    LET b0 == [b EXCEPT !.now = current_time]
        b1 == IF b0.haste_active /\ current_time - b0.last_haste_time >= HasteDuration
              THEN EndHaste(b0) ELSE b0
        b2 == IF /\ ~b1.haste_active
                 /\ current_time - b1.last_haste_time >= HasteCooldown
                 /\ can_see_player
                 /\ distance <= HasteBossWeaponRange * 2
              THEN ActivateHaste(b1, current_time) ELSE b1
    IN  IF IsAlive(b2.current_health) /\ ShouldEnrage(b2) THEN Enrage(b2) ELSE b2

HasteLevels == {10}
HasteDtInputs == {25000, 50000}
HasteDistInputs == {60, 200}
HasteMaxTime == 400000

InitHaste ==
    /\ \E lvl \in HasteLevels : haste = NewDaggerHasteBoss(lvl)
    /\ flank = IdleLater /\ hurt = IdleLater /\ minion = IdleLater
    /\ OlderIdle

notHaste == <<olderVars, flank, hurt, minion>>

HasteUpdate ==
    /\ \E dt \in HasteDtInputs, see \in BOOLEAN, d \in HasteDistInputs :
          /\ haste.now + dt <= HasteMaxTime
          /\ haste' = DaggerHasteBossUpdate(haste, haste.now + dt, see, d)
    /\ UNCHANGED notHaste

\* Enemy.take_damage on the boss
HasteTakeDamage ==
    /\ IsAlive(haste.current_health)
    /\ \E d \in {haste.max_health \div 4, haste.max_health} :
          haste' = [haste EXCEPT !.current_health = TakeDamage(@, d)]
    /\ UNCHANGED notHaste

NextHaste == HasteUpdate \/ HasteTakeDamage

SpecHaste == InitHaste /\ [][NextHaste]_vars

\* C32: once a DaggerHasteBoss is enraged, its speed and attack_cooldown keep
\* the enrage modifiers for the rest of its life: speed is never below twice
\* and attack_cooldown never above half of the value before the enrage,
\* whether haste is activated or ends.
C32_EnrageSurvivesHaste ==
    (haste.pc = "haste" /\ haste.enraged /\ IsAlive(haste.current_health))
        => /\ haste.speed >= 2 * haste.original_speed
           /\ haste.attack_cooldown <= haste.original_attack_cooldown \div 2


(***************************************************************************)
(* SpecFlank: one Enemy of ai_strategy flanking ("fast") or kiting         *)
(* ("ranged") that is not mind controlled, under Enemy.update, with its    *)
(* attack cooldown.  The clock fields of NewEnemy are in tenths of a       *)
(* second; attack_cooldown and since_attack are in 1/10000 s so that the   *)
(* factor 0.7 stays exact.  attacked records whether the update called     *)
(* attack_player, can_see_player is the argument of the update.            *)
(***************************************************************************)
\* setup_stats: attack_speed, in 1/10000 s
TypeAttackSpeed(t) ==
    CASE t = "fast" -> 6000 [] t = "heavy" -> 25000 [] t = "ranged" -> 20000
      [] OTHER -> 15000

\* setup_weapon: speed_multiplier, in tenths
WeaponSpeedMultiplier(t) ==
    CASE t = "fast" -> 20 [] t = "heavy" -> 8 [] t = "ranged" -> 15 [] OTHER -> 10

\* setup_weapon: attack_cooldown /= weapon_speed_multiplier
BaseAttackCooldown(t) == (TypeAttackSpeed(t) * 10) \div WeaponSpeedMultiplier(t)

NewFlankEnemy(t) ==
    [f \in DOMAIN NewEnemy(t, 60) \cup
           {"attack_cooldown", "base_attack_cooldown", "since_attack",
            "attacked", "can_see_player", "flank_hits"} |->
        CASE f = "pc" -> "flank"
          [] f = "attack_cooldown" -> BaseAttackCooldown(t)
          [] f = "base_attack_cooldown" -> BaseAttackCooldown(t)
          [] f = "since_attack" -> BaseAttackCooldown(t)   \* last_attack_time = 0
          [] f = "attacked" -> FALSE
          [] f = "can_see_player" -> FALSE
          [] f = "flank_hits" -> 0
          [] OTHER -> NewEnemy(t, 60)[f]]

\* "if current_time - self.last_attack_time >= self.attack_cooldown"
CooldownReady(e) == e.since_attack >= e.attack_cooldown

\* attack_player(player); last_attack_time = current_time
DoAttack(e) == [e EXCEPT !.attacked = TRUE, !.since_attack = 0]

\* Enemy.attack_behavior
FlankAttackBehavior(e) == IF CooldownReady(e) THEN DoAttack(e) ELSE e

\* Enemy.kiting_behavior: attacks between 0.8 * weapon_range and weapon_range
FlankKitingBehavior(e, player_distance) ==
    IF player_distance * 10 < e.weapon_range * 8 THEN e
    ELSE IF player_distance > e.weapon_range THEN e
    ELSE IF CooldownReady(e) THEN DoAttack(e) ELSE e

\* Enemy.flanking_behavior: within weapon_range it attacks when the cooldown
\* is ready, and from the side or from behind multiplies attack_cooldown
\* by 0.7
FlankingBehavior(e, player_distance, side_or_behind) ==
    IF player_distance <= e.weapon_range /\ CooldownReady(e)
    THEN IF side_or_behind
         THEN [DoAttack(e) EXCEPT !.attack_cooldown = (@ * 7) \div 10,
                                  !.flank_hits = @ + 1]
         ELSE DoAttack(e)
    ELSE e

\* Enemy.update of an enemy that is not mind controlled and not knocked back
FlankEnemyUpdate(e, in) ==
    IF ~EnemyIsAlive(e) THEN e
    ELSE
    LET e0 == [e EXCEPT !.since_raycast = Saturate(@ + in.dt, RaycastInterval),
                        !.since_seen = Saturate(@ + in.dt, GiveUpTime + 1),
                        !.since_attack = Saturate(@ + in.dt * 1000, e.base_attack_cooldown),
                        !.attacked = FALSE,
                        !.can_see_player = in.can_see_player]
        e1 == UpdateAiState(e0, in.can_see_player, in.player_distance)
    IN  CASE e1.state = "chasing" -> StrategicChaseBehavior(e1, in.player_distance)
          [] e1.state = "attacking" -> FlankAttackBehavior(e1)
          [] e1.state = "kiting" -> FlankKitingBehavior(e1, in.player_distance)
          [] e1.state = "flanking" ->
                FlankingBehavior(e1, in.player_distance, in.side_or_behind)
          [] OTHER -> e1

FlankTypes == {"fast", "ranged"}
FlankDtInputs == {3, 50}
FlankDistInputs == {30, 40, 90, 120}
FlankInputs ==
    [dt : FlankDtInputs, can_see_player : BOOLEAN,
     player_distance : FlankDistInputs, side_or_behind : BOOLEAN]
\* flanking hits followed
MaxFlankHits == 3

InitFlank ==
    /\ \E t \in FlankTypes : flank = NewFlankEnemy(t)
    /\ haste = IdleLater /\ hurt = IdleLater /\ minion = IdleLater
    /\ OlderIdle

notFlank == <<olderVars, haste, hurt, minion>>

FlankUpdate ==
    /\ \E in \in FlankInputs :
          LET e == FlankEnemyUpdate(flank, in)
          IN  e.flank_hits <= MaxFlankHits /\ flank' = e
    /\ UNCHANGED notFlank

\* Enemy.take_damage from a hit of the player
FlankTakeDamage ==
    /\ EnemyIsAlive(flank)
    /\ flank' = EnemyTakeDamage(flank, 20)
    /\ UNCHANGED notFlank

NextFlank == FlankUpdate \/ FlankTakeDamage

SpecFlank == InitFlank /\ [][NextFlank]_vars

\* C33: the attack-speed bonus of flanking does not accumulate: the
\* attack_cooldown of an enemy is never below 0.7 times its
\* base_attack_cooldown.
C33_FlankBonusBounded ==
    flank.pc = "flank"
        => flank.attack_cooldown * 10 >= flank.base_attack_cooldown * 7

\* C35: an enemy that is not mind controlled calls attack_player only in an
\* update in which it has line of sight to the player.
C35_AttackOnlyInSight ==
    (flank.pc = "flank" /\ flank.attacked /\ ~flank.mind_controlled)
        => flank.can_see_player


(***************************************************************************)
(* Axis-wise movement (player.py, enemy.py), in SpecMove.                  *)
(***************************************************************************)
\* the position (x, y) is free of walls for the moving entity
FreeAt(x, y) ==
    ~CheckWallCollision(MoveFloor, MoveLevelWidth, MoveLevelHeight, x, y, mover.radius)

WallTileInGrid(tx, ty) ==
    /\ 0 <= tx /\ tx < MoveLevelWidth /\ 0 <= ty /\ ty < MoveLevelHeight
    /\ IsWall(MoveFloor, tx, ty)

\* C39: a movement step never carries the entity across a wall: no wall tile
\* lies under the path of its centre from the old to the new position, first
\* along x, then along y.
C39_NoMoveAcrossWall ==
    [][mlast' = "move" =>
         /\ \A t \in TilesOnPath(mover.x, mover.y, mover'.x, mover.y) :
               ~WallTileInGrid(t[1], t[2])
         /\ \A t \in TilesOnPath(mover'.x, mover.y, mover'.x, mover'.y) :
               ~WallTileInGrid(t[1], t[2])]_vars


(***************************************************************************)
(* SpecHurt: the Player under Player.take_damage (player.py).  The clock   *)
(* now is pygame.time.get_ticks() / 1000.0 in hundredths of a second.      *)
(* Within one tick of Game.update the clock moves on by at most            *)
(* MaxTickWork between the first and the last call; between two ticks it   *)
(* moves on by one frame.  tick_hits counts the calls of the current tick  *)
(* that lowered current_health, refused tells whether the last call        *)
(* returned at the immunity test.                                          *)
(***************************************************************************)
\* Player.__init__: damage_immunity_duration = 0.5
DamageImmunityDuration == 50

NewHurtPlayer(start) ==
    [pc |-> "hurt",
     current_health |-> PlayerMaxHealth,
     max_health |-> PlayerMaxHealth,
     last_damage_time |-> 0,
     now |-> start,
     tick_start |-> start,
     tick_hits |-> 0,
     refused |-> FALSE,
     last |-> "new"]

\* Player.take_damage without the immunity test
PlayerTakeDamageNoImmunity(p, amount) ==
    [p EXCEPT !.current_health = Max(0, @ - amount),
              !.last_damage_time = p.now,
              !.tick_hits = @ + (IF Max(0, p.current_health - amount) < p.current_health
                                 THEN 1 ELSE 0),
              !.refused = FALSE,
              !.last = "take_damage"]

\* Player.take_damage at the time p.now
PlayerTakeDamage(p, amount) ==
    IF p.now - p.last_damage_time < DamageImmunityDuration
    THEN [p EXCEPT !.refused = TRUE, !.last = "take_damage"]
    ELSE [p EXCEPT !.current_health = Max(0, @ - amount),
                   !.last_damage_time = p.now,
                   !.tick_hits = @ + (IF Max(0, p.current_health - amount) < p.current_health
                                      THEN 1 ELSE 0),
                   !.refused = FALSE,
                   !.last = "take_damage"]

\* damage of an enemy projectile, a melee hit, a boss projectile or effect
HurtDamageInputs == {10, 30}
\* the clock at the start of the game
HurtStartTimes == {0, 60}
\* time from one tick to the next: short frames and long ones
FrameInputs == {2, 24, 50}
\* clock time that passes between two calls in one tick
WorkInputs == {0, 1}
\* longest time from the start of a tick to its last call
MaxTickWork == 3
\* the clock stops here
HurtMaxClock == 160

InitHurt ==
    /\ \E start \in HurtStartTimes : hurt = NewHurtPlayer(start)
    /\ haste = IdleLater /\ flank = IdleLater /\ minion = IdleLater
    /\ OlderIdle

notHurt == <<olderVars, haste, flank, minion>>

\* a caller of the current tick reaches player.take_damage: Enemy.update,
\* Enemy.attack_player, Level.update_boss_projectiles, Level.update_boss_effects
HurtTakeDamage ==
    /\ hurt.current_health > 0
    /\ \E amount \in HurtDamageInputs, work \in WorkInputs :
          /\ hurt.now + work - hurt.tick_start <= MaxTickWork
          /\ hurt' = PlayerTakeDamage([hurt EXCEPT !.now = @ + work], amount)
    /\ UNCHANGED notHurt

\* Game.run: the next tick begins
HurtNextTick ==
    /\ \E frame \in FrameInputs :
          /\ hurt.tick_start + frame <= HurtMaxClock
          /\ hurt.tick_start + frame >= hurt.now
          /\ hurt' = [hurt EXCEPT !.now = hurt.tick_start + frame,
                                  !.tick_start = hurt.tick_start + frame,
                                  !.tick_hits = 0,
                                  !.last = "tick"]
    /\ UNCHANGED notHurt

NextHurt == HurtTakeDamage \/ HurtNextTick

SpecHurt == InitHurt /\ [][NextHurt]_vars

\* C36: a call of take_damage made less than damage_immunity_duration after
\* the last damage changes neither current_health nor last_damage_time, and
\* the player's health goes down at most once per tick.
C36_ImmuneAfterDamage ==
    [][hurt.pc = "hurt" =>
         /\ (/\ hurt'.last = "take_damage"
             /\ hurt'.now - hurt.last_damage_time < DamageImmunityDuration)
            => /\ hurt'.current_health = hurt.current_health
               /\ hurt'.last_damage_time = hurt.last_damage_time
         /\ hurt'.tick_hits <= 1]_vars

\* in one tick the player was hit and a further call was refused
C36_Witness ==
    /\ hurt.pc = "hurt" /\ hurt.last = "take_damage"
    /\ hurt.tick_hits = 1 /\ hurt.refused
    /\ hurt.last_damage_time >= hurt.tick_start
    /\ hurt.current_health < hurt.max_health


PausePlayerMove == ~paused /\ InvPlayerMove

NextPause == TogglePause \/ PausePlayerMove \/ InvTryPickup \/ InvDropSpell

SpecPause == InitInv /\ [][NextPause]_vars

\* C38: while the game is paused, the player's position and inventory, the
\* ground items and the state of the game (health, enemies, key, level) are
\* left unchanged by Game.update and by the events handled.
C38_PausedChangesNothing ==
    [][(paused /\ paused')
          => /\ inv' = inv
             /\ UNCHANGED <<player_hp, enemies, ehp, key_collected, current_level>>]_vars


(***************************************************************************)
(* SpecMinion: Boss.summon_minions (game_src/boss.py) on the level of      *)
(* SpecMove.  The boss stands on the centre of a floor tile; of the        *)
(* minions the model keeps the positions they are created at.              *)
(***************************************************************************)
\* summon_minions: 60 * (cos, sin) of the angles 0, 2 pi / 3 and 4 pi / 3,
\* rounded to whole pixels
MinionOffsets == <<<<60, 0>>, <<-30, 52>>, <<-30, -52>>>>

\* Boss.summon_minions: the positions of the three minions appended to
\* level.enemies
SummonMinions(position) ==
    [i \in 1 .. 3 |-> <<position[1] + MinionOffsets[i][1],
                         position[2] + MinionOffsets[i][2]>>]

\* centres of the floor tiles
BossSpots ==
    {<<t[1] * tile_size + tile_size \div 2, t[2] * tile_size + tile_size \div 2>> :
        t \in MoveFloor}

\* calls of summon_minions followed
MaxSummons == 1

InitMinion ==
    /\ \E p \in BossSpots :
          minion = [pc |-> "minion", position |-> p, minions |-> <<>>, summons |-> 0]
    /\ haste = IdleLater /\ flank = IdleLater /\ hurt = IdleLater
    /\ OlderIdle

notMinion == <<olderVars, haste, flank, hurt>>

\* Enemy.apply_movement of the boss, over several ticks
MinionBossMove ==
    /\ \E p \in BossSpots \ {minion.position} :
          minion' = [minion EXCEPT !.position = p]
    /\ UNCHANGED notMinion

\* Boss.use_special_ability -> summon_minions with the cooldown elapsed
MinionSummon ==
    /\ minion.summons < MaxSummons
    /\ minion' = [minion EXCEPT !.minions = @ \o SummonMinions(minion.position),
                                !.summons = @ + 1]
    /\ UNCHANGED notMinion

NextMinion == MinionBossMove \/ MinionSummon

SpecMinion == InitMinion /\ [][NextMinion]_vars

\* C40: every minion created by summon_minions stands inside the grid and
\* its circle overlaps no wall tile.
C40_MinionsClearOfWalls ==
    minion.pc = "minion" =>
        \A i \in DOMAIN minion.minions :
            LET m == minion.minions[i]
            IN  /\ 0 <= m[1] /\ m[1] < MoveLevelWidth * tile_size
                /\ 0 <= m[2] /\ m[2] < MoveLevelHeight * tile_size
                /\ ~CheckWallCollision(MoveFloor, MoveLevelWidth, MoveLevelHeight,
                                       m[1], m[2], EnemyRadius)

====
